---------------------------- MODULE Spec2Model ----------------------------
(***************************************************************************)
(* Model of the proving core of the Jolt zkVM lookup implementation:       *)
(* field arithmetic (src/src/field/fr.rs), the Poseidon-style hash         *)
(* (src/src/crypto/hash.rs), the Pedersen commitment, the polynomials,     *)
(* the proof system, the Merkle tree, the lookup subtables and verifier,   *)
(* the Lasso argument and the operand chunks of src/src/core.rs.           *)
(*                                                                         *)
(* A u64 is a tuple of four 16-bit limbs, least significant first, so that *)
(* every value keeps its 64-bit width: the model computes with the         *)
(* program's own modulus 0xFFFFFFFF00000001 and sees the same overflows.   *)
(* A panic of the program is the value Panic, which every operation        *)
(* propagates.                                                             *)
(***************************************************************************)
EXTENDS Integers, Sequences, FiniteSets, TLC

---------------------------------------------------------------------------
(* 64-bit unsigned integers                                                *)

Limb == 65536

Panic == << >>

U64(l0, l1, l2, l3) == <<l0, l1, l2, l3>>

\* a small natural number n < 2^31 as a u64
U64Of(n) == <<n % Limb, n \div Limb, 0, 0>>

U64Zero == <<0, 0, 0, 0>>

\* the four limbs of a five-tuple whose fifth entry is a carry or borrow
Low4(r) == <<r[1], r[2], r[3], r[4]>>

RECURSIVE AddLimbs(_, _, _, _)
RECURSIVE AddStep(_, _, _, _)
\* limbs i..4 of x + y + carry, followed by the carry out
AddLimbs(x, y, i, carry) ==
    IF i > 4 THEN <<carry>> ELSE AddStep(x, y, i, x[i] + y[i] + carry)
AddStep(x, y, i, sum) == <<sum % Limb>> \o AddLimbs(x, y, i + 1, sum \div Limb)

\* x + y in 65 bits: four limbs and the carry out
U64AddC(x, y) == AddLimbs(x, y, 1, 0)

RECURSIVE SubLimbs(_, _, _, _)
RECURSIVE SubStep(_, _, _, _)
\* limbs i..4 of x - y - borrow, followed by the borrow out
SubLimbs(x, y, i, borrow) ==
    IF i > 4 THEN <<borrow>> ELSE SubStep(x, y, i, x[i] - y[i] - borrow)
SubStep(x, y, i, diff) ==
    IF diff < 0 THEN <<diff + Limb>> \o SubLimbs(x, y, i + 1, 1)
    ELSE <<diff>> \o SubLimbs(x, y, i + 1, 0)

\* x - y modulo 2^64: four limbs and the borrow out
U64SubB(x, y) == SubLimbs(x, y, 1, 0)

U64Less(x, y) ==
    \/ x[4] < y[4]
    \/ x[4] = y[4] /\ x[3] < y[3]
    \/ x[4] = y[4] /\ x[3] = y[3] /\ x[2] < y[2]
    \/ x[4] = y[4] /\ x[3] = y[3] /\ x[2] = y[2] /\ x[1] < y[1]

\* Fr::MODULUS = 0xFFFFFFFF00000001
MODULUS == <<1, 0, 65535, 65535>>

\* x % MODULUS for a u64 x: since 2^64 < 2 * MODULUS one subtraction suffices
U64RemModulus(x) == IF U64Less(x, MODULUS) THEN x ELSE Low4(U64SubB(x, MODULUS))

\* column sums of a four-limb by four-limb schoolbook product
Columns(a, y) ==
    <<a[1] * y[1],
      a[1] * y[2] + a[2] * y[1],
      a[1] * y[3] + a[2] * y[2] + a[3] * y[1],
      a[1] * y[4] + a[2] * y[3] + a[3] * y[2] + a[4] * y[1],
      a[2] * y[4] + a[3] * y[3] + a[4] * y[2],
      a[3] * y[4] + a[4] * y[3],
      a[4] * y[4],
      0>>

RECURSIVE Propagate(_, _, _, _)
RECURSIVE PropagateStep(_, _, _, _)
\* limbs k..8 of the number whose columns are lo[k] + 256 * hi[k]
Propagate(lo, hi, k, carry) ==
    IF k > 8 THEN << >>
    ELSE PropagateStep(lo, hi, k,
            lo[k] + 256 * (hi[k] % 256)
            + (IF k > 1 THEN hi[k - 1] \div 256 ELSE 0) + carry)
PropagateStep(lo, hi, k, sum) ==
    <<sum % Limb>> \o Propagate(lo, hi, k + 1, sum \div Limb)

\* The 128-bit product (self.0 as u128 * rhs.0 as u128) as eight limbs.  A
\* product of two limbs exceeds TLC's integers, so x is split into bytes:
\* lo sums (x_i mod 256) * y_j and hi sums (x_i div 256) * y_j per column.
U128Mul(x, y) ==
    Propagate(Columns(<<x[1] % 256, x[2] % 256, x[3] % 256, x[4] % 256>>, y),
              Columns(<<x[1] \div 256, x[2] \div 256, x[3] \div 256, x[4] \div 256>>, y),
              1, 0)

\* lo - n3 modulo MODULUS, from the difference d with its borrow
BorrowFix(d) == IF d[5] = 1 THEN Low4(U64AddC(Low4(d), MODULUS)) ELSE Low4(d)

\* the sum s with its carry, modulo MODULUS: 2^64 = 2^32 - 1
CarryFix(s) == IF s[5] = 1 THEN Low4(U64AddC(Low4(s), <<65535, 65535, 0, 0>>)) ELSE Low4(s)

\* z % MODULUS for a 128-bit z = lo + 2^64 * n2 + 2^96 * n3.  Modulo
\* MODULUS, 2^64 = 2^32 - 1 and 2^96 = -1, so z = (lo - n3) + (n2 * 2^32 - n2).
U128RemModulus(z) ==
    U64RemModulus(CarryFix(U64AddC(
        BorrowFix(U64SubB(<<z[1], z[2], z[3], z[4]>>, <<z[7], z[8], 0, 0>>)),
        Low4(U64SubB(<<0, 0, z[5], z[6]>>, <<z[5], z[6], 0, 0>>)))))

---------------------------------------------------------------------------
(* State                                                                   *)

VARIABLES
    overflow_checks,   \* the build profile: TRUE when a u64 addition that overflows panics (debug), FALSE when it wraps (release)
    pc,                \* "run", or "panicked" once a call has panicked
    calls,             \* number of calls made so far
    \* two ProofSystem objects, the prover's and the verifier's
    hasher,            \* hasher[s]: ProofSystem.hasher.state of system s
    generator_seed,    \* generator_seed[s]: what the random generator of PedersenCommitment::new gave system s
    blinding_factor,   \* blinding_factor[s]: ProofSystem.commitment.blinding_factor
    proof,             \* the Proof create_proof last returned
    proof_inputs,      \* the public inputs it was created for
    proof_owner,       \* the system that created it
    last,              \* the last call: operation, system, arguments and result
    history,           \* the verify calls that returned: system, arguments, result
    \* a MerkleTree and the MerkleProof it generated
    leaves,            \* the leaf vector the tree was built from
    levels,            \* MerkleTree.levels, << >> before the tree is built
    tree_hasher,       \* MerkleTree.hasher.state
    replaced,          \* position of the leaf that was replaced before a rebuild, 0 if none
    prev_root,         \* root of the tree before the leaf was replaced
    merkle_proof,      \* MerkleProof.proof: the siblings
    proof_index,       \* the index the proof was generated for, -1 before
    tampered,          \* position of the sibling that was replaced, 0 if none
    merkle_verify,     \* the last MerkleProof::verify call: index passed and result
    \* a LassoLookup and a LookupVerifier
    subtables,         \* subtables[i]: LassoLookup.subtables[i-1].table, a function from keys to values
    lasso_generators,  \* LassoLookup.commitment_scheme.generators
    lasso_blinding,    \* LassoLookup.commitment_scheme.blinding_factor
    subtable_call,     \* the last LookupSubtable::prove_lookup call: subtable, values, and result
    lasso_values,      \* the values of the last LassoLookup::prove_lookup call
    lasso_proof,       \* what that call returned
    table_changed,     \* TRUE once the table entry for key 1 was changed
    instruction_lookup, \* what LookupVerifier::verify_instruction_lookup returned for lasso_proof
    \* an ExecutionContext and a LookupTable
    registers,         \* ExecutionContext.registers: general_purpose, the register values, and width
    entries,           \* LookupTable.entries: for each key inserted, its value and its metadata.index
    \* calls of functions that read their arguments and change no state
    fn_call            \* the last such call: the function, its arguments and what it returned

psVars == <<hasher, generator_seed, blinding_factor, proof, proof_inputs, proof_owner, last, history>>

mkVars == <<leaves, levels, tree_hasher, replaced, prev_root, merkle_proof,
            proof_index, tampered, merkle_verify>>

lkVars == <<subtables, lasso_generators, lasso_blinding, subtable_call,
            lasso_values, lasso_proof, table_changed, instruction_lookup>>

objVars == <<registers, entries>>

vars == <<overflow_checks, pc, calls, psVars, mkVars, lkVars, objVars, fn_call>>

\* no call made
NoFnCall == [op |-> "none"]

---------------------------------------------------------------------------
(* Fr: src/src/field/fr.rs                                                 *)

FrZero == U64Zero

FrOne == <<1, 0, 0, 0>>

\* impl From<u64> for Fr
FrFrom(value) == U64RemModulus(value)

\* the 65-bit sum reduced: the carry is the u64 overflow
AddReduce(s) ==
    IF s[5] = 1 /\ overflow_checks THEN Panic ELSE U64RemModulus(Low4(s))

\* impl Add for Fr: Fr((self.0 + rhs.0) % Self::MODULUS), the sum a u64
FrAdd(a, b) ==
    IF a = Panic \/ b = Panic THEN Panic ELSE AddReduce(U64AddC(a, b))

\* impl Sub for Fr: self.0 - rhs.0 when self.0 >= rhs.0, else
\* MODULUS - (rhs.0 - self.0)
FrSub(a, b) ==
    IF a = Panic \/ b = Panic THEN Panic
    ELSE IF ~U64Less(a, b) THEN Low4(U64SubB(a, b))
    ELSE Low4(U64SubB(MODULUS, Low4(U64SubB(b, a))))

\* a multiplication whose product is cut to 64 bits before the reduction
FrMulWrapping(a, b) ==
    IF a = Panic \/ b = Panic THEN Panic
    ELSE U64RemModulus(Low4(U128Mul(a, b)))

\* impl Mul for Fr: the product is formed in a u128
FrMul(a, b) ==
    IF a = Panic \/ b = Panic THEN Panic
    ELSE U128RemModulus(U128Mul(a, b))

\* exp >> 1
U64Shr1(e) ==
    <<(e[1] \div 2) + (e[2] % 2) * 32768,
      (e[2] \div 2) + (e[3] % 2) * 32768,
      (e[3] \div 2) + (e[4] % 2) * 32768,
      e[4] \div 2>>

RECURSIVE PowLoop(_, _, _)
PowLoop(base, result, exp) ==
    IF exp = U64Zero THEN result
    ELSE IF base = Panic \/ result = Panic THEN Panic
    ELSE PowLoop(FrMul(base, base),
                 IF exp[1] % 2 = 1 THEN FrMul(result, base) ELSE result,
                 U64Shr1(exp))

\* Fr::pow: square and multiply, least significant bit first
FrPow(x, exp) == IF x = Panic THEN Panic ELSE PowLoop(x, FrOne, exp)

\* Option<Fr>: None, Some(value)
None == [some |-> FALSE, value |-> Panic]

Some(value) == [some |-> TRUE, value |-> value]

\* an inverse that raises to the power MODULUS - 1
FrInverseFermat(a) ==
    IF a = FrZero THEN None
    ELSE Some(FrPow(a, Low4(U64SubB(MODULUS, U64Of(1)))))

\* Fr::inverse: None for zero, else Some(self.pow(MODULUS - 2))
FrInverse(a) ==
    IF a = FrZero THEN None
    ELSE Some(FrPow(a, Low4(U64SubB(MODULUS, U64Of(2)))))

---------------------------------------------------------------------------
(* PoseidonHash: src/src/crypto/hash.rs                                    *)

POSEIDON_ROUNDS == 8

POSEIDON_WIDTH == 3

\* PoseidonHash::generate_round_constants
RoundConstants ==
    [r \in 0..(POSEIDON_ROUNDS - 1) |-> [i \in 1..POSEIDON_WIDTH |-> FrFrom(U64Of(1))]]

\* PoseidonHash::generate_mds_matrix
MdsMatrix ==
    [i \in 1..POSEIDON_WIDTH |-> [j \in 1..POSEIDON_WIDTH |-> FrFrom(U64Of(1))]]

\* the state PoseidonHash::new gives a hasher
FreshHasher == <<FrZero, FrZero, FrZero>>

\* the hasher of a call that panicked
PanickedHasher == <<Panic, Panic, Panic>>

\* a panic anywhere in the state
Panicked(st) == \E i \in 1..POSEIDON_WIDTH : st[i] = Panic

RECURSIVE AddRoundConstants(_, _, _)
\* for i: state[i] += round_constants[r][i]
AddRoundConstants(st, r, i) ==
    IF i > POSEIDON_WIDTH THEN << >>
    ELSE <<FrAdd(st[i], RoundConstants[r][i])>> \o AddRoundConstants(st, r, i + 1)

RECURSIVE FullSbox(_, _)
\* for i: state[i] = state[i].pow(5)
FullSbox(st, i) ==
    IF i > POSEIDON_WIDTH THEN << >>
    ELSE <<FrPow(st[i], U64Of(5))>> \o FullSbox(st, i + 1)

\* state[0] = state[0].pow(5)
PartialSbox(st) == <<FrPow(st[1], U64Of(5))>> \o Tail(st)

RECURSIVE MdsRow(_, _, _, _)
\* state[i] = 0; for j: state[i] += old_state[j] * mds_matrix[i][j]
MdsRow(old, i, j, acc) ==
    IF j > POSEIDON_WIDTH THEN acc
    ELSE MdsRow(old, i, j + 1, FrAdd(acc, FrMul(old[j], MdsMatrix[i][j])))

RECURSIVE MdsMultiply(_, _)
MdsMultiply(old, i) ==
    IF i > POSEIDON_WIDTH THEN << >>
    ELSE <<MdsRow(old, i, 1, FrZero)>> \o MdsMultiply(old, i + 1)

\* the S-box layer of round r: full, or state[0] only
Sbox(st, r) ==
    IF r < POSEIDON_ROUNDS \div 2 \/ r >= POSEIDON_ROUNDS - POSEIDON_ROUNDS \div 2
    THEN FullSbox(st, 1)
    ELSE PartialSbox(st)

\* one round of PoseidonHash::hash on the state st
PoseidonRound(st, r) == MdsMultiply(Sbox(AddRoundConstants(st, r, 1), r), 1)

RECURSIVE PoseidonRounds(_, _)
\* for r in 0..POSEIDON_ROUNDS, given up at the first panic
PoseidonRounds(st, r) ==
    IF r = POSEIDON_ROUNDS \/ Panicked(st) THEN st
    ELSE PoseidonRounds(PoseidonRound(st, r), r + 1)

\* the state a call leaves: all Panic when it panicked
FinishHash(st) == IF Panicked(st) THEN PanickedHasher ELSE st

\* PoseidonHash::hash: the hasher's state after hash(input) on a hasher in
\* state st.  state[0] and state[1] are overwritten by input[0] and
\* input[1], state[2] keeps what the previous call left; an input shorter
\* than two elements is an index out of bounds.
HashState(st, input) ==
    IF Len(input) < 2 THEN PanickedHasher
    ELSE FinishHash(PoseidonRounds(<<input[1], input[2]>> \o SubSeq(st, 3, POSEIDON_WIDTH), 0))

\* the value PoseidonHash::hash returns: self.state[0]
HashValue(st, input) == HashState(st, input)[1]

---------------------------------------------------------------------------
(* Polynomial: src/src/crypto/polynomial.rs                                *)

\* a normalize that pops nothing
PolyNormalizeKeep(c) == IF c = << >> THEN <<FrZero>> ELSE c

RECURSIVE PolyNormalize(_)
\* Polynomial::normalize: pop trailing zero coefficients, keep one zero
PolyNormalize(c) ==
    IF c = << >> THEN <<FrZero>>
    ELSE IF c[Len(c)] = FrZero THEN PolyNormalize(SubSeq(c, 1, Len(c) - 1))
    ELSE c

\* Polynomial::new
PolyNew(coefficients) == PolyNormalize(coefficients)

RECURSIVE EvaluateLoop(_, _, _, _, _)
\* for coefficient: result += coefficient * power; power *= point
EvaluateLoop(c, i, point, result, power) ==
    IF i > Len(c) \/ result = Panic THEN result
    ELSE EvaluateLoop(c, i + 1, point, FrAdd(result, FrMul(c[i], power)), FrMul(power, point))

\* Polynomial::evaluate
PolyEvaluate(c, point) == EvaluateLoop(c, 1, point, FrZero, FrOne)

\* Polynomial::degree: self.coefficients.len() - 1
PolyDegree(c) == Len(c) - 1

RECURSIVE Zeros(_)

\* vec![Fr::zero(); n]
Zeros(n) == IF n = 0 THEN << >> ELSE Append(Zeros(n - 1), FrZero)

RECURSIVE MultiplyLoop(_, _, _, _, _)
RECURSIVE MultiplyStep(_, _, _, _, _, _)

\* for (i, a) in self ...: for (j, b) in other ...: result[i + j] += *a * *b
\* (i and j counted from 1 here), then Polynomial::new(result)
MultiplyLoop(a, b, i, j, result) ==
    IF i > Len(a) THEN PolyNew(result)
    ELSE IF j > Len(b) THEN MultiplyLoop(a, b, i + 1, 1, result)
    ELSE MultiplyStep(a, b, i, j, result,
                      FrAdd(result[i + j - 1], FrMul(a[i], b[j])))

MultiplyStep(a, b, i, j, result, sum) ==
    IF sum = Panic THEN Panic
    ELSE MultiplyLoop(a, b, i, j + 1, [result EXCEPT ![i + j - 1] = sum])

\* Polynomial::multiply: Panic when an addition panicked
PolyMultiply(a, b) == MultiplyLoop(a, b, 1, 1, Zeros(Len(a) + Len(b) - 1))

\* a / b on Fr, which divide uses and the sources do not define.  For a
\* non-zero b it is a times the inverse of b; for b zero it is either a
\* panic (the unwrap of inverse()'s None) or a times pow(b, MODULUS - 2),
\* which is zero, as zero_panics says.
FrDiv(a, b, zero_panics) ==
    IF a = Panic \/ b = Panic THEN Panic
    ELSE IF b = FrZero /\ zero_panics THEN Panic
    ELSE FrMul(a, FrPow(b, Low4(U64SubB(MODULUS, U64Of(2)))))

RECURSIVE DivideInner(_, _, _, _, _)

\* for j in 0..=divisor_deg: remainder[i + j] -= factor * divisor[j]
DivideInner(divisor, factor, i, j, remainder) ==
    IF j > PolyDegree(divisor) THEN remainder
    ELSE DivideInner(divisor, factor, i, j + 1,
             [remainder EXCEPT ![i + j + 1] = FrSub(@, FrMul(factor, divisor[j + 1]))])

\* (Polynomial::new(quotient), Polynomial::new(remainder[0..divisor_deg]))
DivideReturn(divisor, quotient, remainder) ==
    [status |-> "Ok",
     polys |-> <<PolyNew(quotient),
                 PolyNew(SubSeq(remainder, 1, PolyDegree(divisor)))>>]

\* what a call returns that panicked
PolyPanic == [status |-> "panic", polys |-> << >>]

RECURSIVE DivideOuter(_, _, _, _, _)
RECURSIVE DivideFactor(_, _, _, _, _, _)

\* for i in (0..=self_deg - divisor_deg).rev():
\* factor = remainder[i + divisor_deg] / divisor.coefficients[divisor_deg]
DivideOuter(divisor, zero_panics, i, quotient, remainder) ==
    IF i < 0 THEN DivideReturn(divisor, quotient, remainder)
    ELSE DivideFactor(divisor, zero_panics, i, quotient, remainder,
             FrDiv(remainder[i + PolyDegree(divisor) + 1],
                   divisor[PolyDegree(divisor) + 1], zero_panics))

\* quotient[i] = factor, then the inner loop
DivideFactor(divisor, zero_panics, i, quotient, remainder, factor) ==
    IF factor = Panic THEN PolyPanic
    ELSE DivideOuter(divisor, zero_panics, i - 1,
                     [quotient EXCEPT ![i + 1] = factor],
                     DivideInner(divisor, factor, i, 0, remainder))

\* Polynomial::divide.  self_deg - divisor_deg is a usize: when the divisor
\* has the greater degree the subtraction panics under overflow checks, and
\* without them it wraps to an index no quotient has, so quotient[i] panics.
PolyDivide(f, divisor, zero_panics) ==
    IF PolyDegree(f) < PolyDegree(divisor) THEN PolyPanic
    ELSE DivideOuter(divisor, zero_panics, PolyDegree(f) - PolyDegree(divisor),
                     Zeros(Len(f)), f)

---------------------------------------------------------------------------
(* PedersenCommitment: src/src/crypto/commitment.rs                        *)

RECURSIVE CommitLoop(_, _, _, _)
\* for (value, generator): commitment += value * generator
CommitLoop(gens, values, i, commitment) ==
    IF i > Len(values) \/ commitment = Panic THEN commitment
    ELSE CommitLoop(gens, values, i + 1, FrAdd(commitment, FrMul(values[i], gens[i])))

\* PedersenCommitment::commit: assert_eq!(values.len(), generators.len()),
\* then the sum of value * generator, plus the blinding factor
Commit(gens, blinding, values) ==
    IF Len(values) # Len(gens) THEN Panic
    ELSE FrAdd(CommitLoop(gens, values, 1, FrZero), blinding)

---------------------------------------------------------------------------
(* Operand chunks: src/src/core.rs                                         *)

\* the width of a u64
U64_BITS == 64

\* x << 1, the bit shifted out dropped
U64Shl1(x) == Low4(U64AddC(x, x))

RECURSIVE ShlLoop(_, _)

\* x shifted left by n < 64 bits
ShlLoop(x, n) ==
    IF n = 0 \/ x = U64Zero THEN x ELSE ShlLoop(U64Shl1(x), n - 1)

RECURSIVE ShrLoop(_, _)

\* x shifted right by n < 64 bits
ShrLoop(x, n) ==
    IF n = 0 \/ x = U64Zero THEN x ELSE ShrLoop(U64Shr1(x), n - 1)

\* x << n on a u64: a shift by 64 or more panics under overflow checks and
\* otherwise shifts by n modulo 64
U64Shl(x, n) ==
    IF x = Panic THEN Panic
    ELSE IF n >= U64_BITS
         THEN IF overflow_checks THEN Panic ELSE ShlLoop(x, n % U64_BITS)
         ELSE ShlLoop(x, n)

\* x >> n on a u64, with the same treatment of n >= 64
U64Shr(x, n) ==
    IF x = Panic THEN Panic
    ELSE IF n >= U64_BITS
         THEN IF overflow_checks THEN Panic ELSE ShrLoop(x, n % U64_BITS)
         ELSE ShrLoop(x, n)

RECURSIVE BitAnd(_, _)

\* a & b on two limbs
BitAnd(a, b) ==
    IF a = 0 \/ b = 0 THEN 0
    ELSE (a % 2) * (b % 2) + 2 * BitAnd(a \div 2, b \div 2)

RECURSIVE BitOr(_, _)

\* a | b on two limbs
BitOr(a, b) ==
    IF a = 0 THEN b
    ELSE IF b = 0 THEN a
    ELSE (IF a % 2 = 1 \/ b % 2 = 1 THEN 1 ELSE 0) + 2 * BitOr(a \div 2, b \div 2)

\* x & y
U64And(x, y) ==
    IF x = Panic \/ y = Panic THEN Panic
    ELSE <<BitAnd(x[1], y[1]), BitAnd(x[2], y[2]), BitAnd(x[3], y[3]), BitAnd(x[4], y[4])>>

\* x | y
U64Or(x, y) ==
    IF x = Panic \/ y = Panic THEN Panic
    ELSE <<BitOr(x[1], y[1]), BitOr(x[2], y[2]), BitOr(x[3], y[3]), BitOr(x[4], y[4])>>

\* shifted - 1
MaskOf(shifted) ==
    IF shifted = Panic THEN Panic ELSE Low4(U64SubB(shifted, U64Of(1)))

\* let mask = (1u64 << m) - 1
ChunkMask(m) == MaskOf(U64Shl(U64Of(1), m))

ChunkPanic == [status |-> "panic", chunks |-> << >>]

\* chunks.push((x >> shift) & mask)
ChunkPush(r, chunk) ==
    IF chunk = Panic THEN ChunkPanic
    ELSE [status |-> "Ok", chunks |-> Append(r.chunks, chunk)]

RECURSIVE ChunkLoop(_, _, _, _, _, _)

\* for i in 0..c, with the chunks pushed so far in r
ChunkLoop(x, m, c, i, mask, r) ==
    IF r.status = "panic" \/ i >= c THEN r
    ELSE ChunkLoop(x, m, c, i + 1, mask,
                   ChunkPush(r, U64And(U64Shr(x, (c - 1 - i) * m), mask)))

ChunkWithMask(x, m, c, mask) ==
    IF mask = Panic THEN ChunkPanic
    ELSE ChunkLoop(x, m, c, 0, mask, [status |-> "Ok", chunks |-> << >>])

\* chunk_u64(x, m, c)
ChunkU64(x, m, c) == ChunkWithMask(x, m, c, ChunkMask(m))

RECURSIVE ConcatenateLoop(_, _, _, _)

\* for &chunk in chunks: result = (result << m) | chunk
ConcatenateLoop(chunks, m, i, result) ==
    IF result = Panic \/ i > Len(chunks) THEN result
    ELSE ConcatenateLoop(chunks, m, i + 1, U64Or(U64Shl(result, m), chunks[i]))

\* concatenate(chunks, m)
Concatenate(chunks, m) == ConcatenateLoop(chunks, m, 1, U64Zero)

---------------------------------------------------------------------------
(* Instructions: src/src/instructions.rs                                   *)

\* (1u64 << w) - 1
WidthMask(w) == MaskOf(U64Shl(U64Of(1), w))

\* x ^ y on two limbs
BitXor(a, b) == BitOr(a, b) - BitAnd(a, b)

\* x ^ y
U64Xor(x, y) ==
    IF x = Panic \/ y = Panic THEN Panic
    ELSE <<BitXor(x[1], y[1]), BitXor(x[2], y[2]), BitXor(x[3], y[3]), BitXor(x[4], y[4])>>

\* x.wrapping_add(y)
WrappingAdd(x, y) == Low4(U64AddC(x, y))

\* AndInstruction::execute: x & y & ((1u64 << w) - 1)
AndExecute(x, y, w) == U64And(U64And(x, y), WidthMask(w))

\* OrInstruction::execute: x | y & ((1u64 << w) - 1), where & binds tighter
\* than |
OrExecute(x, y, w) == U64Or(x, U64And(y, WidthMask(w)))

\* XorInstruction::execute: x ^ y & ((1u64 << w) - 1), where & binds tighter
\* than ^
XorExecute(x, y, w) == U64Xor(x, U64And(y, WidthMask(w)))

\* AddInstruction::execute: x.wrapping_add(y) & ((1u64 << w) - 1)
AddExecute(x, y, w) == U64And(WrappingAdd(x, y), WidthMask(w))

\* instruction.execute(x, y, w)
Execute(instruction, x, y, w) ==
    CASE instruction = "And" -> AndExecute(x, y, w)
      [] instruction = "Or" -> OrExecute(x, y, w)
      [] instruction = "Xor" -> XorExecute(x, y, w)
      [] instruction = "Add" -> AddExecute(x, y, w)

---------------------------------------------------------------------------
(* RegisterFile and ExecutionContext: src/src/register.rs, execution.rs    *)

\* RegisterFile::new(32, 8, width) in ExecutionContext::new
NUM_GP == 32

\* RegisterFile::new: every general-purpose register zero
RegisterFileNew(width) ==
    [general_purpose |-> [i \in 1..NUM_GP |-> U64Zero], width |-> width]

\* RegisterFile::read_gp(index): general_purpose.get(index).copied()
ReadGp(regs, index) ==
    IF index < NUM_GP THEN Some(regs.general_purpose[index + 1]) ELSE None

\* the register file and the value write_gp returns once the masked value is
\* computed
WriteGpStore(regs, index, masked) ==
    IF masked = Panic THEN [registers |-> regs, result |-> "panic"]
    ELSE [registers |-> [regs EXCEPT !.general_purpose[index + 1] = masked],
          result |-> "true"]

\* RegisterFile::write_gp(index, value)
WriteGp(regs, index, value) ==
    IF index < NUM_GP
    THEN WriteGpStore(regs, index, U64And(value, WidthMask(regs.width)))
    ELSE [registers |-> regs, result |-> "false"]

\* self.registers.write_gp(rd, result) in execute_instruction
ExecuteWrite(regs, rd, result) ==
    IF result = Panic THEN [registers |-> regs, result |-> "panic"]
    ELSE WriteGp(regs, rd, result)

\* ExecutionContext::execute_instruction
ExecuteInstruction(regs, instruction, rs1, rs2, rd, w) ==
    IF ReadGp(regs, rs1) # None /\ ReadGp(regs, rs2) # None
    THEN ExecuteWrite(regs, rd,
                      Execute(instruction, ReadGp(regs, rs1).value, ReadGp(regs, rs2).value, w))
    ELSE [registers |-> regs, result |-> "false"]

\* LookupTable::insert (src/src/crypto/lookup/table.rs): the entry stored under
\* key holds the value and, as metadata.index, the number of entries the table
\* held before the call; an entry already stored under the key is replaced.
\* The hash, the Merkle path, the commitment and the preprocessed data are
\* computed by functions with no definition in the sources and are left out.
TableInsert(tbl, key, value) ==
    (key :> [value |-> value, index |-> Cardinality(DOMAIN tbl)]) @@ tbl

\* no ExecutionContext in use and an empty LookupTable
InitObjects ==
    /\ registers = RegisterFileNew(0)
    /\ entries = << >>

---------------------------------------------------------------------------
(* ProofSystem: src/src/crypto/proof.rs                                    *)

\* PedersenCommitment::new(32) in ProofSystem::new
NUM_GENERATORS == 32

\* ProofSystem.commitment.generators of system s: the generators drawn at
\* construction are seed + 1, seed + 2, ..., for the seed drawn
Generators(s) ==
    [i \in 1..NUM_GENERATORS |->
        <<generator_seed[s][1] + i, generator_seed[s][2],
          generator_seed[s][3], generator_seed[s][4]>>]

Systems == {1, 2}

NoProof == [witness_commitment |-> Panic, evaluation |-> Panic, challenge |-> Panic]

NoCall == [op |-> "none", sys |-> 0, proof |-> NoProof, inputs |-> << >>, result |-> "none"]

\* the Proof create_proof returns and the hasher state it leaves, all Panic
\* when the call panicked
CreateProofReturn(witness_commitment, hashed, evaluation) ==
    IF witness_commitment = Panic \/ Panicked(hashed) \/ evaluation = Panic
    THEN [proof |-> NoProof, hasher |-> PanickedHasher]
    ELSE [proof |-> [witness_commitment |-> witness_commitment,
                     evaluation |-> evaluation,
                     challenge |-> hashed[1]],
          hasher |-> hashed]

\* let evaluation = witness_poly.evaluate(challenge)
CreateProofEvaluate(witness, witness_commitment, hashed) ==
    CreateProofReturn(witness_commitment, hashed,
                      PolyEvaluate(PolyNew(witness), hashed[1]))

\* transcript = public_inputs ++ [witness_commitment];
\* challenge = self.hasher.hash(&transcript)
CreateProofHash(s, witness, public_inputs, witness_commitment) ==
    CreateProofEvaluate(witness, witness_commitment,
        IF witness_commitment = Panic THEN PanickedHasher
        ELSE HashState(hasher[s], public_inputs \o <<witness_commitment>>))

\* ProofSystem::create_proof
CreateProofResult(s, witness, public_inputs) ==
    CreateProofHash(s, witness, public_inputs,
                    Commit(Generators(s), blinding_factor[s], witness))

\* challenge == proof.challenge
VerifyReturn(p, hashed) ==
    [result |-> IF hashed[1] = Panic THEN "panic"
                ELSE IF hashed[1] = p.challenge THEN "true" ELSE "false",
     hasher |-> hashed]

\* ProofSystem::verify: what the call returns ("true", "false", or "panic")
\* and the hasher state it leaves
VerifyResult(s, p, public_inputs) ==
    VerifyReturn(p, HashState(hasher[s], public_inputs \o <<p.witness_commitment>>))

---------------------------------------------------------------------------
(* MerkleTree and MerkleProof: src/src/crypto/merkle.rs                    *)

\* push(hasher.hash(&[left, right])) and on to the next chunk
RECURSIVE NextLevel(_, _, _, _)
RECURSIVE NextLevelPush(_, _, _, _)

\* for chunk in current_level.chunks(2): the chunk starting at position k
\* (from 1); a missing right entry is Fr::zero()
NextLevel(st, current_level, k, next_level) ==
    IF Panicked(st) \/ k > Len(current_level)
    THEN [hasher |-> st, level |-> next_level]
    ELSE NextLevelPush(
             HashState(st, <<current_level[k],
                             IF k + 1 <= Len(current_level)
                             THEN current_level[k + 1] ELSE FrZero>>),
             current_level, k, next_level)

NextLevelPush(hashed, current_level, k, next_level) ==
    NextLevel(hashed, current_level, k + 2, Append(next_level, hashed[1]))

RECURSIVE BuildLevels(_, _)
RECURSIVE BuildLevelsPush(_, _)

\* while levels.last().unwrap().len() > 1 { ... levels.push(next_level) }
BuildLevels(st, lvls) ==
    IF Panicked(st) \/ Len(lvls[Len(lvls)]) <= 1
    THEN [hasher |-> st, levels |-> lvls]
    ELSE BuildLevelsPush(NextLevel(st, lvls[Len(lvls)], 1, << >>), lvls)

BuildLevelsPush(r, lvls) == BuildLevels(r.hasher, Append(lvls, r.level))

\* MerkleTree::new: one hasher, created fresh, computes every entry
MerkleTreeNew(lvs) == BuildLevels(FreshHasher, <<lvs>>)

\* MerkleTree::root: first() of the last level, unwrap panics when it is empty
Root(lvls) ==
    IF Len(lvls[Len(lvls)]) = 0 THEN Panic ELSE lvls[Len(lvls)][1]

\* current_index ^ 1
Xor1(n) == IF n % 2 = 0 THEN n + 1 ELSE n - 1

RECURSIVE ProofLoop(_, _, _, _)

\* for level in 0..self.levels.len()-1 (level counted from 1 here): the
\* sibling is pushed only when it exists
ProofLoop(lvls, level, current_index, siblings) ==
    IF level > Len(lvls) - 1 THEN siblings
    ELSE ProofLoop(lvls, level + 1, current_index \div 2,
                   IF Xor1(current_index) < Len(lvls[level])
                   THEN Append(siblings, lvls[level][Xor1(current_index) + 1])
                   ELSE siblings)

\* MerkleTree::generate_proof
GenerateProofResult(lvls, index) == ProofLoop(lvls, 1, index, << >>)

RECURSIVE VerifyLoop(_, _, _, _, _)
RECURSIVE VerifyLoopHashed(_, _, _, _)

\* for sibling in &self.proof: the k-th sibling
VerifyLoop(st, siblings, k, current, current_index) ==
    IF Panicked(st) THEN Panic
    ELSE IF k > Len(siblings) THEN current
    ELSE VerifyLoopHashed(
             HashState(st, IF current_index % 2 = 0
                           THEN <<current, siblings[k]>>
                           ELSE <<siblings[k], current>>),
             siblings, k, current_index)

VerifyLoopHashed(hashed, siblings, k, current_index) ==
    VerifyLoop(hashed, siblings, k + 1, hashed[1], current_index \div 2)

\* current == root
MerkleVerifyReturn(current, root) ==
    IF current = Panic THEN "panic"
    ELSE IF current = root THEN "true" ELSE "false"

\* MerkleProof::verify with the hasher state st the caller passes
MerkleVerifyResult(siblings, root, leaf, index, st) ==
    MerkleVerifyReturn(VerifyLoop(st, siblings, 1, leaf, index), root)

---------------------------------------------------------------------------
(* LookupSubtable and LassoLookup: src/src/crypto/lookup.rs                *)
(* LookupVerifier: src/src/verification/lookup_verifier.rs                 *)

\* BTreeMap::new()
EmptyTable == << >>

\* a lookup that takes the entries it reads out of the table
TableAfterRemove(tbl, values) ==
    [k \in DOMAIN tbl \ {values[i] : i \in 1..Len(values)} |-> tbl[k]]

\* the table of a subtable after prove_lookup(values): prove_lookup takes
\* &self and reads the table with get, so the table is as it was
TableAfterLookup(tbl, values) == tbl

RECURSIVE SubtableLoopKeys(_, _, _, _)

\* a loop that pushes the queried value in place of the table's value
SubtableLoopKeys(tbl, values, k, proof_elements) ==
    IF k > Len(values) THEN [status |-> "Ok", elements |-> proof_elements]
    ELSE IF values[k] \in DOMAIN tbl
         THEN SubtableLoopKeys(tbl, values, k + 1, Append(proof_elements, values[k]))
         ELSE [status |-> "LookupFailed", elements |-> << >>]

RECURSIVE SubtableLoopSkip(_, _, _, _)

\* a loop that passes over a value that is not a key
SubtableLoopSkip(tbl, values, k, proof_elements) ==
    IF k > Len(values) THEN [status |-> "Ok", elements |-> proof_elements]
    ELSE IF values[k] \in DOMAIN tbl
         THEN SubtableLoopSkip(tbl, values, k + 1, Append(proof_elements, tbl[values[k]]))
         ELSE SubtableLoopSkip(tbl, values, k + 1, proof_elements)

RECURSIVE SubtableLoop(_, _, _, _)

\* for &value in values: the k-th value; a value that is not a key of the
\* table ends the call with Err(LookupFailed), which holds no proof
SubtableLoop(tbl, values, k, proof_elements) ==
    IF k > Len(values) THEN [status |-> "Ok", elements |-> proof_elements]
    ELSE IF values[k] \in DOMAIN tbl
         THEN SubtableLoop(tbl, values, k + 1, Append(proof_elements, tbl[values[k]]))
         ELSE [status |-> "LookupFailed", elements |-> << >>]

\* LookupSubtable::prove_lookup
SubtableProveLookup(tbl, values) == SubtableLoop(tbl, values, 1, << >>)

NUM_SUBTABLES == 4

CHUNK_SIZE == 32

\* LassoLookup::new: four subtables, each with an empty table
NewSubtables == [i \in 1..NUM_SUBTABLES |-> EmptyTable]

\* what LassoLookup::prove_lookup returns when it does not return a proof
LassoFailure(status) ==
    [status |-> status, input_commitment |-> Panic, subtable_proofs |-> << >>]

\* a chunk that runs to the end of the input
ChunkToEnd(values, i) == SubSeq(values, CHUNK_SIZE * i + 1, Len(values))

\* values.chunks(32): chunk i (from 0)
Chunk(values, i) ==
    SubSeq(values, CHUNK_SIZE * i + 1,
           IF CHUNK_SIZE * (i + 1) < Len(values)
           THEN CHUNK_SIZE * (i + 1) ELSE Len(values))

RECURSIVE LassoChunks(_, _, _, _, _)
RECURSIVE LassoChunksPush(_, _, _, _, _, _)

\* for (i, chunk) in values.chunks(32).enumerate():
\* self.subtables[i].prove_lookup(chunk)?, subtables[i] panicking when i is
\* out of bounds.  The permutation proof and the combined proof are left
\* out: the functions that compute them have no definition in the sources.
LassoChunks(tbls, values, i, input_comm, subtable_proofs) ==
    IF CHUNK_SIZE * i >= Len(values)
    THEN [status |-> "Ok", input_commitment |-> input_comm,
          subtable_proofs |-> subtable_proofs]
    ELSE IF i + 1 > Len(tbls) THEN LassoFailure("panic")
    ELSE LassoChunksPush(tbls, values, i, input_comm, subtable_proofs,
                         SubtableProveLookup(tbls[i + 1], Chunk(values, i)))

LassoChunksPush(tbls, values, i, input_comm, subtable_proofs, r) ==
    IF r.status # "Ok" THEN LassoFailure(r.status)
    ELSE LassoChunks(tbls, values, i + 1, input_comm, Append(subtable_proofs, r))

\* the rest of prove_lookup once the input commitment is computed
LassoAfterCommit(tbls, values, input_comm) ==
    IF input_comm = Panic THEN LassoFailure("panic")
    ELSE LassoChunks(tbls, values, 0, input_comm, << >>)

\* LassoLookup::prove_lookup
LassoProveLookup(tbls, gens, blinding, values) ==
    LassoAfterCommit(tbls, values, Commit(gens, blinding, values))

\* a swap that copies perm[j] to position i and leaves position j as it was
SwapCopy(perm, i, j) == [perm EXCEPT ![i + 1] = perm[j + 1]]

\* perm.swap(i, j), positions counted from 0
Swap(perm, i, j) == [perm EXCEPT ![i + 1] = perm[j + 1], ![j + 1] = perm[i + 1]]

\* LookupVerifier::new: HashMap::new(), and no function inserts into it
InstructionTables == << >>

\* LookupVerifier::new: Vec::new()
SubtableVerifiers == << >>

\* LookupVerifier::verify_instruction_encoding
VerifyInstructionEncoding(type_id) ==
    IF type_id \in DOMAIN InstructionTables THEN "Ok" ELSE "UnknownInstruction"

\* LookupVerifier::verify_instruction_lookup: the error of the encoding step
\* is returned by `?`; past it, subtable_verifiers[i] is indexed for every
\* subtable proof
VerifyInstructionLookup(type_id, p) ==
    IF VerifyInstructionEncoding(type_id) # "Ok"
    THEN VerifyInstructionEncoding(type_id)
    ELSE IF Len(p.subtable_proofs) > Len(SubtableVerifiers) THEN "panic"
    ELSE "true"

---------------------------------------------------------------------------
(* LassoArgument: src/src/crypto/lasso.rs                                  *)

\* An instruction is given by what its decompose_tables() and encode()
\* return (neither has a definition in the sources): tables is the sequence
\* of (table_idx, values) pairs, encoding the sequence of field elements.

\* what prove_instruction returns when it does not return a proof
InstructionFailure(status) ==
    [status |-> status, lookup_proofs |-> << >>, instruction_commitment |-> Panic]

\* Ok(InstructionProof { lookup_proofs, instruction_commitment:
\*    self.commitment_scheme.commit(&instruction.encode()) })
InstructionReturn(lookup_proofs, commitment) ==
    IF commitment = Panic THEN InstructionFailure("panic")
    ELSE [status |-> "Ok", lookup_proofs |-> lookup_proofs,
          instruction_commitment |-> commitment]

RECURSIVE InstructionLoop(_, _, _, _)
RECURSIVE InstructionLoopPush(_, _, _, _, _)

\* for (table_idx, values) in table_indices: the k-th pair;
\* self.lookup_tables[table_idx] panics when table_idx is out of bounds and
\* `?` returns the error of prove_lookup
InstructionLoop(arg, instruction, k, lookup_proofs) ==
    IF k > Len(instruction.tables)
    THEN InstructionReturn(lookup_proofs,
             Commit(arg.generators, arg.blinding, instruction.encoding))
    ELSE IF instruction.tables[k][1] + 1 > Len(arg.lookup_tables)
    THEN InstructionFailure("panic")
    ELSE InstructionLoopPush(arg, instruction, k, lookup_proofs,
             LassoProveLookup(arg.lookup_tables[instruction.tables[k][1] + 1].subtables,
                              arg.lookup_tables[instruction.tables[k][1] + 1].generators,
                              arg.lookup_tables[instruction.tables[k][1] + 1].blinding,
                              instruction.tables[k][2]))

InstructionLoopPush(arg, instruction, k, lookup_proofs, r) ==
    IF r.status # "Ok" THEN InstructionFailure(r.status)
    ELSE InstructionLoop(arg, instruction, k + 1, Append(lookup_proofs, r))

\* LassoArgument::prove_instruction
ProveInstruction(arg, instruction) == InstructionLoop(arg, instruction, 1, << >>)

\* what prove returns when it does not return a proof: the error, the number
\* of instructions prove_instruction was called for, and what the
\* transcript was fed
ArgumentFailure(status, attempted, transcript) ==
    [status |-> status, instruction_proofs |-> << >>, final_commitment |-> Panic,
     attempted |-> attempted, transcript |-> transcript]

RECURSIVE CombineLoop(_, _, _)

\* LassoArgument::combine_instruction_proofs: combined_commitment +=
\* proof.instruction_commitment (the challenge responses are evaluations
\* of the permutation proofs, which no function of the sources computes)
CombineLoop(proofs, k, combined_commitment) ==
    IF k > Len(proofs) \/ combined_commitment = Panic THEN combined_commitment
    ELSE CombineLoop(proofs, k + 1,
                     FrAdd(combined_commitment, proofs[k].instruction_commitment))

\* steps 2 and 3 of prove: the combined proof is appended to the transcript,
\* then prove_final (not defined in the sources) returns Ok or, when
\* final_ok is FALSE, an error that `?` returns
ProveFinal(instruction_proofs, final_commitment, final_ok) ==
    IF final_commitment = Panic
    THEN ArgumentFailure("panic", Len(instruction_proofs), << >>)
    ELSE IF ~final_ok
    THEN ArgumentFailure("FinalFailed", Len(instruction_proofs), <<"combined">>)
    ELSE [status |-> "Ok", instruction_proofs |-> instruction_proofs,
          final_commitment |-> final_commitment,
          attempted |-> Len(instruction_proofs), transcript |-> <<"combined">>]

RECURSIVE ProveLoop(_, _, _, _, _)
RECURSIVE ProveLoopPush(_, _, _, _, _, _)

\* a loop that passes over an instruction whose proof failed
ProveLoopPushSkip(arg, program, i, instruction_proofs, final_ok, r) ==
    ProveLoop(arg, program, i + 1,
              IF r.status # "Ok" THEN instruction_proofs
              ELSE Append(instruction_proofs, r),
              final_ok)

\* for instruction in &program.instructions: the i-th instruction;
\* `?` returns the error of prove_instruction
ProveLoop(arg, program, i, instruction_proofs, final_ok) ==
    IF i > Len(program)
    THEN ProveFinal(instruction_proofs, CombineLoop(instruction_proofs, 1, FrZero),
                    final_ok)
    ELSE ProveLoopPush(arg, program, i, instruction_proofs, final_ok,
                       ProveInstruction(arg, program[i]))

ProveLoopPush(arg, program, i, instruction_proofs, final_ok, r) ==
    IF r.status # "Ok" THEN ArgumentFailure(r.status, i, << >>)
    ELSE ProveLoop(arg, program, i + 1, Append(instruction_proofs, r), final_ok)

\* LassoArgument::prove
LassoArgumentProve(arg, program, final_ok) ==
    ProveLoop(arg, program, 1, << >>, final_ok)

---------------------------------------------------------------------------
\* ---- the inputs of the lookup calls ----

MaxQuery == 3

KeyChoices == {U64Of(1), U64Of(2), U64Of(3)}

\* the table {(1,10),(2,20)}
ExampleTable == (U64Of(1) :> U64Of(10)) @@ (U64Of(2) :> U64Of(20))

\* the same table with the entry for key 1 changed to 99
ChangedTable == [ExampleTable EXCEPT ![U64Of(1)] = U64Of(99)]

\* prove_lookup reads the table of its subtable; LookupSubtable::new gives
\* the empty one
TableChoices == {EmptyTable, ExampleTable, ChangedTable}

RECURSIVE QuerySeqs(_)

\* the queries of length n
QuerySeqs(n) ==
    IF n = 0 THEN {<< >>}
    ELSE {Append(q, v) : q \in QuerySeqs(n - 1), v \in KeyChoices}

Queries == UNION {QuerySeqs(n) : n \in 0..MaxQuery}

InstructionTypes == {"ADD", "XOR"}

NoSubtableCall == [subtable |-> 0, values |-> << >>, status |-> "none", elements |-> << >>]

\* no lookup call made
InitLookupCalls ==
    /\ subtable_call = NoSubtableCall
    /\ lasso_values = << >>
    /\ lasso_proof = LassoFailure("none")
    /\ table_changed = FALSE
    /\ instruction_lookup = "none"

\* LassoLookup::new(1)
InitLookupIdle ==
    /\ subtables = NewSubtables
    /\ lasso_generators = <<U64Of(2)>>
    /\ lasso_blinding = U64Of(5)
    /\ InitLookupCalls

\* LassoLookup::new(w), with one of the tables in its first subtable
InitLassoLookup ==
    /\ subtables \in {[NewSubtables EXCEPT ![1] = t] : t \in TableChoices}
    /\ lasso_generators \in {[i \in 1..w |-> U64Of(i + 1)] : w \in 1..MaxQuery}
    /\ lasso_blinding = U64Of(5)
    /\ InitLookupCalls

---------------------------------------------------------------------------
\* ---- the calls made on the two systems ----

MaxCalls == 3

ZeroWitness == [i \in 1..NUM_GENERATORS |-> FrZero]

CountWitness == [i \in 1..NUM_GENERATORS |-> U64Of(i)]

ShortWitness == [i \in 1..(NUM_GENERATORS - 1) |-> FrZero]

WitnessChoices == {ZeroWitness, CountWitness, ShortWitness}

PublicInputChoices == {<< >>, <<U64Of(1)>>, <<U64Of(323), U64Of(349)>>}

\* values put in place of a proof's witness_commitment
TamperChoices == {U64Of(1)}

\* the proofs handed to verify: the one create_proof returned, or that proof
\* with its witness_commitment replaced and its challenge kept
ProofsToVerify ==
    {proof} \cup {[proof EXCEPT !.witness_commitment = c] :
                     c \in TamperChoices \ {proof.witness_commitment}}

InitProofSystems ==
    /\ hasher = [s \in Systems |-> FreshHasher]
    /\ generator_seed = [s \in Systems |-> IF s = 1 THEN U64Of(1) ELSE <<0, 0, 0, 32768>>]
    /\ blinding_factor = [s \in Systems |-> U64Of(4 * s + 3)]
    /\ proof = NoProof
    /\ proof_inputs = << >>
    /\ proof_owner = 0
    /\ last = NoCall
    /\ history = {}

\* no tree built, no proof generated
NoVerify == [index |-> -1, result |-> "none"]

InitMerkleTree ==
    /\ leaves = << >>
    /\ levels = << >>
    /\ tree_hasher = FreshHasher
    /\ replaced = 0
    /\ prev_root = Panic
    /\ merkle_proof = << >>
    /\ proof_index = -1
    /\ tampered = 0
    /\ merkle_verify = NoVerify

InitProof ==
    /\ overflow_checks \in BOOLEAN
    /\ pc = "run"
    /\ calls = 0
    /\ InitProofSystems
    /\ InitObjects
    /\ InitMerkleTree
    /\ InitLookupIdle
    /\ fn_call = NoFnCall

\* the effect of a create_proof call that returned r
CreateProofEffect(s, public_inputs, r) ==
    IF r.proof = NoProof
    THEN /\ pc' = "panicked"
         /\ last' = [op |-> "create_proof", sys |-> s, proof |-> NoProof,
                     inputs |-> public_inputs, result |-> "panic"]
         /\ UNCHANGED <<hasher, proof, proof_inputs, proof_owner>>
    ELSE /\ pc' = pc
         /\ hasher' = [hasher EXCEPT ![s] = r.hasher]
         /\ proof' = r.proof
         /\ proof_inputs' = public_inputs
         /\ proof_owner' = s
         /\ last' = [op |-> "create_proof", sys |-> s, proof |-> r.proof,
                     inputs |-> public_inputs, result |-> "proof"]

CreateProof(s, witness, public_inputs) ==
    /\ pc = "run"
    /\ calls < MaxCalls
    /\ calls' = calls + 1
    /\ CreateProofEffect(s, public_inputs, CreateProofResult(s, witness, public_inputs))
    /\ UNCHANGED <<fn_call, objVars, overflow_checks, generator_seed, blinding_factor, history, mkVars, lkVars>>

\* the effect of a verify call that returned r
VerifyEffect(s, p, public_inputs, r) ==
    /\ last' = [op |-> "verify", sys |-> s, proof |-> p,
                inputs |-> public_inputs, result |-> r.result]
    /\ IF r.result = "panic"
       THEN /\ pc' = "panicked"
            /\ UNCHANGED <<hasher, history>>
       ELSE /\ pc' = pc
            /\ hasher' = [hasher EXCEPT ![s] = r.hasher]
            /\ history' = history \cup
                  {[sys |-> s, proof |-> p, inputs |-> public_inputs,
                    result |-> r.result]}

Verify(s, p, public_inputs) ==
    /\ pc = "run"
    /\ calls < MaxCalls
    /\ proof # NoProof
    /\ calls' = calls + 1
    /\ VerifyEffect(s, p, public_inputs, VerifyResult(s, p, public_inputs))
    /\ UNCHANGED <<fn_call, objVars, overflow_checks, generator_seed, blinding_factor, proof,
                   proof_inputs, proof_owner, mkVars,
                   lkVars>>

NextProof ==
    \/ \E s \in Systems, w \in WitnessChoices, pi \in PublicInputChoices :
          CreateProof(s, w, pi)
    \/ \E s \in Systems, p \in ProofsToVerify, pi \in PublicInputChoices :
          Verify(s, p, pi)

SpecProof == InitProof /\ [][NextProof]_vars

---------------------------------------------------------------------------
(* Calls on a MerkleTree and on the MerkleProof it hands out               *)

MaxLeaves == 3

\* 5492173083826784087 = 4 * 1373043270956696022 - 1, where
\* 1373043270956696022 is a fifth root of one modulo MODULUS
LeafChoices == {FrZero, U64Of(3), <<1879, 10869, 7762, 19512>>}

RECURSIVE LeafSeqs(_)

\* the leaf vectors of length n
LeafSeqs(n) ==
    IF n = 0 THEN {<< >>}
    ELSE {Append(l, v) : l \in LeafSeqs(n - 1), v \in LeafChoices}

LeafVectors == UNION {LeafSeqs(n) : n \in 0..MaxLeaves}

InitMerkle ==
    /\ overflow_checks \in BOOLEAN
    /\ pc = "run"
    /\ calls = 0
    /\ InitProofSystems
    /\ InitObjects
    /\ InitMerkleTree
    /\ InitLookupIdle
    /\ fn_call = NoFnCall

\* the tree MerkleTree::new returned, or the panic it ended in
NewTreeEffect(lvs, r) ==
    IF Panicked(r.hasher)
    THEN /\ pc' = "panicked"
         /\ UNCHANGED <<leaves, levels, tree_hasher>>
    ELSE /\ pc' = pc
         /\ leaves' = lvs
         /\ levels' = r.levels
         /\ tree_hasher' = r.hasher

\* let tree = MerkleTree::new(lvs)
MerkleNew(lvs) ==
    /\ pc = "run"
    /\ levels = << >>
    /\ NewTreeEffect(lvs, MerkleTreeNew(lvs))
    /\ UNCHANGED <<fn_call, objVars, overflow_checks, calls, psVars, lkVars, replaced, prev_root,
                   merkle_proof, proof_index, tampered, merkle_verify>>

\* one leaf of a tree just built replaced by a different field element, and
\* the tree rebuilt with MerkleTree::new; the root of the tree before is kept
\* in prev_root.  The rebuilt tree is one of the trees MerkleNew builds, so
\* its proofs are the ones generated there.
ReplaceLeaf(i, v) ==
    /\ pc = "run"
    /\ levels # << >>
    /\ replaced = 0
    /\ proof_index = -1
    /\ i \in 1..Len(leaves)
    /\ v # leaves[i]
    /\ replaced' = i
    /\ prev_root' = Root(levels)
    /\ NewTreeEffect([leaves EXCEPT ![i] = v], MerkleTreeNew([leaves EXCEPT ![i] = v]))
    /\ UNCHANGED <<fn_call, objVars, overflow_checks, calls, psVars, lkVars, merkle_proof, proof_index,
                   tampered, merkle_verify>>

\* let proof = tree.generate_proof(index), for an index of a leaf
GenerateProof(index) ==
    /\ pc = "run"
    /\ levels # << >>
    /\ replaced = 0
    /\ index \in 0..(Len(leaves) - 1)
    /\ merkle_proof' = GenerateProofResult(levels, index)
    /\ proof_index' = index
    /\ tampered' = 0
    /\ merkle_verify' = NoVerify
    /\ UNCHANGED <<fn_call, objVars, overflow_checks, pc, calls, psVars, lkVars, leaves, levels,
                   tree_hasher, replaced, prev_root>>

\* sibling k of the proof replaced by a different field element
TamperSibling(k, v) ==
    /\ pc = "run"
    /\ proof_index >= 0
    /\ tampered = 0
    /\ k \in 1..Len(merkle_proof)
    /\ v # merkle_proof[k]
    /\ merkle_proof' = [merkle_proof EXCEPT ![k] = v]
    /\ tampered' = k
    /\ merkle_verify' = NoVerify
    /\ UNCHANGED <<fn_call, objVars, overflow_checks, pc, calls, psVars, lkVars, leaves, levels,
                   tree_hasher, replaced, prev_root, proof_index>>

\* what proof.verify(tree.root(), leaves[proof_index], index, &mut hasher)
\* returned, hasher being a PoseidonHash::new()
MerkleVerifyEffect(index, result) ==
    /\ merkle_verify' = [index |-> index, result |-> result]
    /\ pc' = IF result = "panic" THEN "panicked" ELSE pc

MerkleVerify(index) ==
    /\ pc = "run"
    /\ proof_index >= 0
    /\ merkle_verify = NoVerify
    /\ MerkleVerifyEffect(index,
          MerkleVerifyResult(merkle_proof, Root(levels), leaves[proof_index + 1],
                             index, FreshHasher))
    /\ UNCHANGED <<fn_call, objVars, overflow_checks, calls, psVars, lkVars, leaves, levels, tree_hasher,
                   replaced, prev_root, merkle_proof, proof_index, tampered>>

NextMerkle ==
    \/ \E lvs \in LeafVectors : MerkleNew(lvs)
    \/ \E i \in 1..MaxLeaves, v \in LeafChoices : ReplaceLeaf(i, v)
    \/ \E index \in 0..(MaxLeaves - 1) : GenerateProof(index)
    \/ \E k \in 1..MaxLeaves, v \in LeafChoices : TamperSibling(k, v)
    \/ \E index \in 0..(MaxLeaves - 1) : MerkleVerify(index)

SpecMerkle == InitMerkle /\ [][NextMerkle]_vars

---------------------------------------------------------------------------
(* Calls on a LassoLookup, its subtables, and a LookupVerifier             *)

InitLookup ==
    /\ overflow_checks \in BOOLEAN
    /\ pc = "run"
    /\ calls = 0
    /\ InitProofSystems
    /\ InitObjects
    /\ InitMerkleTree
    /\ InitLassoLookup
    /\ fn_call = NoFnCall

\* self.subtables[s - 1].prove_lookup(values).  The call reads the table and
\* changes nothing, so it is explored apart from the LassoLookup calls.
ProveLookup(s, values) ==
    /\ pc = "run"
    /\ lasso_proof.status = "none"
    /\ subtable_call' = [subtable |-> s, values |-> values] @@
                            SubtableProveLookup(subtables[s], values)
    /\ subtables' = [subtables EXCEPT ![s] = TableAfterLookup(subtables[s], values)]
    /\ UNCHANGED <<fn_call, objVars, overflow_checks, pc, calls, psVars, mkVars,
                   lasso_generators, lasso_blinding, lasso_values, lasso_proof,
                   table_changed, instruction_lookup>>

\* what lasso.prove_lookup(values, 0) returned, or the panic it ended in
LassoProveEffect(values, r) ==
    /\ lasso_values' = values
    /\ lasso_proof' = r
    /\ pc' = IF r.status = "panic" THEN "panicked" ELSE pc

LassoProve(values) ==
    /\ pc = "run"
    /\ subtable_call.status = "none"
    /\ ~table_changed
    /\ LassoProveEffect(values,
          LassoProveLookup(subtables, lasso_generators, lasso_blinding, values))
    /\ instruction_lookup' = "none"
    /\ subtables' = [i \in 1..NUM_SUBTABLES |-> TableAfterLookup(subtables[i], values)]
    /\ UNCHANGED <<fn_call, objVars, overflow_checks, calls, psVars, mkVars,
                   lasso_generators, lasso_blinding, subtable_call, table_changed>>

\* the table entry for key 1 changed to 99, the proof kept
ChangeTable ==
    /\ pc = "run"
    /\ lasso_proof.status = "Ok"
    /\ ~table_changed
    /\ U64Of(1) \in DOMAIN subtables[1]
    /\ subtables[1][U64Of(1)] # U64Of(99)
    /\ subtables' = [subtables EXCEPT ![1][U64Of(1)] = U64Of(99)]
    /\ table_changed' = TRUE
    /\ instruction_lookup' = "none"
    /\ UNCHANGED <<fn_call, objVars, overflow_checks, pc, calls, psVars, mkVars, lasso_generators,
                   lasso_blinding, subtable_call, lasso_values, lasso_proof>>

\* verifier.verify_instruction_lookup(&instruction, &proof), verifier being a
\* LookupVerifier::new() and the instruction of type type_id
VerifyLookupEffect(result) ==
    /\ instruction_lookup' = result
    /\ pc' = IF result = "panic" THEN "panicked" ELSE pc

VerifyLookup(type_id) ==
    /\ pc = "run"
    /\ lasso_proof.status = "Ok"
    /\ VerifyLookupEffect(VerifyInstructionLookup(type_id, lasso_proof))
    /\ UNCHANGED <<fn_call, objVars, overflow_checks, calls, psVars, mkVars, subtables,
                   lasso_generators, lasso_blinding, subtable_call, lasso_values,
                   lasso_proof, table_changed>>

NextLookup ==
    \/ \E s \in 1..NUM_SUBTABLES, values \in Queries : ProveLookup(s, values)
    \/ \E values \in Queries : LassoProve(values)
    \/ ChangeTable
    \/ \E type_id \in InstructionTypes : VerifyLookup(type_id)

SpecLookup == InitLookup /\ [][NextLookup]_vars

---------------------------------------------------------------------------
(* Calls of LassoArgument::prove                                           *)

MaxProgram == 2

RECURSIVE Repeat(_, _)

\* n copies of v
Repeat(v, n) == IF n = 0 THEN << >> ELSE Append(Repeat(v, n - 1), v)

\* LassoArgument::new(2, w): two lookup tables, the first with the table of
\* subtables[1] in its first subtable, the second as LassoLookup::new leaves
\* it.  Every PedersenCommitment::new draws its own generators; here they
\* all hold the values of lasso_generators.
TheArgument ==
    [lookup_tables |->
        <<[subtables |-> subtables, generators |-> lasso_generators,
           blinding |-> lasso_blinding],
          [subtables |-> NewSubtables, generators |-> lasso_generators,
           blinding |-> lasso_blinding]>>,
     generators |-> lasso_generators,
     blinding |-> lasso_blinding]

\* instructions for lookup tables of width w: one lookup of key 1, two
\* lookups (keys 2 and 1), a lookup of key 3, a lookup in the second lookup
\* table, no lookup at all, and one whose encoding has w + 1 elements
InstructionChoices(w) ==
    {[tables |-> <<<<0, Repeat(U64Of(1), w)>>>>, encoding |-> Repeat(U64Of(1), w)],
     [tables |-> <<<<0, Repeat(U64Of(2), w)>>, <<0, Repeat(U64Of(1), w)>>>>,
      encoding |-> Repeat(U64Of(2), w)],
     [tables |-> <<<<0, Repeat(U64Of(3), w)>>>>, encoding |-> Repeat(U64Of(3), w)],
     [tables |-> <<<<1, Repeat(U64Of(1), w)>>>>, encoding |-> Repeat(U64Of(4), w)],
     [tables |-> << >>, encoding |-> Repeat(U64Of(5), w)],
     [tables |-> << >>, encoding |-> Repeat(U64Of(6), w + 1)]}

RECURSIVE ProgramSeqs(_, _)

\* the programs of n instructions
ProgramSeqs(w, n) ==
    IF n = 0 THEN {<< >>}
    ELSE {Append(p, i) : p \in ProgramSeqs(w, n - 1), i \in InstructionChoices(w)}

Programs(w) == UNION {ProgramSeqs(w, n) : n \in 0..MaxProgram}

InitLasso ==
    /\ overflow_checks \in BOOLEAN
    /\ pc = "run"
    /\ calls = 0
    /\ InitProofSystems
    /\ InitObjects
    /\ InitMerkleTree
    /\ InitLassoLookup
    /\ fn_call = NoFnCall

\* what argument.prove(&program) returned, or the panic it ended in
ArgumentProveEffect(program, r) ==
    /\ fn_call' = [op |-> "prove", program |-> program] @@ r
    /\ pc' = IF r.status = "panic" THEN "panicked" ELSE pc

\* prove changes nothing of the argument, so one call is made per behaviour
ArgumentProve(program, final_ok) ==
    /\ pc = "run"
    /\ fn_call = NoFnCall
    /\ ArgumentProveEffect(program, LassoArgumentProve(TheArgument, program, final_ok))
    /\ UNCHANGED <<overflow_checks, calls, psVars, mkVars, lkVars, objVars>>

NextLasso ==
    \E program \in Programs(Len(lasso_generators)), final_ok \in BOOLEAN :
        ArgumentProve(program, final_ok)

SpecLasso == InitLasso /\ [][NextLasso]_vars

---------------------------------------------------------------------------
(* Calls of the field operations                                           *)

\* field elements: 0, 1, 2, 3, 2^32 - 1, 2^32, 2^63, 1373043270956696022,
\* MODULUS - 2 and MODULUS - 1
FieldChoices ==
    {FrZero, FrOne, U64Of(2), U64Of(3), <<65535, 65535, 0, 0>>, <<0, 0, 1, 0>>,
     <<0, 0, 0, 32768>>, <<16854, 35485, 1940, 4878>>,
     Low4(U64SubB(MODULUS, U64Of(2))), Low4(U64SubB(MODULUS, U64Of(1)))}

InitField ==
    /\ overflow_checks \in BOOLEAN
    /\ pc = "run"
    /\ calls = 0
    /\ InitProofSystems
    /\ InitObjects
    /\ InitMerkleTree
    /\ InitLookupIdle
    /\ fn_call = NoFnCall

\* what a field operation returned, or the panic it ended in
FieldEffect(op, a, b, result) ==
    /\ fn_call' = [op |-> op, a |-> a, b |-> b, result |-> result]
    /\ pc' = IF result = Panic THEN "panicked" ELSE pc

\* a + b
FieldAdd(a, b) ==
    /\ pc = "run"
    /\ fn_call = NoFnCall
    /\ FieldEffect("add", a, b, FrAdd(a, b))
    /\ UNCHANGED <<overflow_checks, calls, psVars, mkVars, lkVars, objVars>>

\* a * b
FieldMul(a, b) ==
    /\ pc = "run"
    /\ fn_call = NoFnCall
    /\ FieldEffect("mul", a, b, FrMul(a, b))
    /\ UNCHANGED <<overflow_checks, calls, psVars, mkVars, lkVars, objVars>>

\* a.inverse()
FieldInverse(a) ==
    /\ pc = "run"
    /\ fn_call = NoFnCall
    /\ FieldEffect("inverse", a, FrZero, FrInverse(a))
    /\ UNCHANGED <<overflow_checks, calls, psVars, mkVars, lkVars, objVars>>

NextField ==
    \/ \E a \in FieldChoices, b \in FieldChoices : FieldAdd(a, b)
    \/ \E a \in FieldChoices, b \in FieldChoices : FieldMul(a, b)
    \/ \E a \in FieldChoices : FieldInverse(a)

SpecField == InitField /\ [][NextField]_vars

---------------------------------------------------------------------------
(* Calls of the Polynomial operations                                      *)

MaxCoeffs == 2

\* coefficients: 0, 1 and 2^63
CoefChoices == {FrZero, FrOne, <<0, 0, 0, 32768>>}

RECURSIVE CoefSeqs(_)

\* the coefficient vectors of length n
CoefSeqs(n) ==
    IF n = 0 THEN {<< >>}
    ELSE {Append(c, v) : c \in CoefSeqs(n - 1), v \in CoefChoices}

\* the vectors handed to Polynomial::new
CoefVectors == UNION {CoefSeqs(n) : n \in 0..MaxCoeffs}

\* the polynomials Polynomial::new makes of them
Polynomials == {PolyNew(c) : c \in CoefVectors}

InitPoly ==
    /\ overflow_checks \in BOOLEAN
    /\ pc = "run"
    /\ calls = 0
    /\ InitProofSystems
    /\ InitObjects
    /\ InitMerkleTree
    /\ InitLookupIdle
    /\ fn_call = NoFnCall

\* what a Polynomial operation returned, or the panic it ended in
PolyEffect(op, a, b, zero_panics, r) ==
    /\ fn_call' = [op |-> op, a |-> a, b |-> b, zero_panics |-> zero_panics,
                   status |-> r.status, polys |-> r.polys]
    /\ pc' = IF r.status = "panic" THEN "panicked" ELSE pc

\* Polynomial::new(coefficients)
PolyNewCall(coefficients) ==
    /\ pc = "run"
    /\ fn_call = NoFnCall
    /\ PolyEffect("new", coefficients, << >>, FALSE,
                  [status |-> "Ok", polys |-> <<PolyNew(coefficients)>>])
    /\ UNCHANGED <<overflow_checks, calls, psVars, mkVars, lkVars, objVars>>

\* what multiply returned
MultiplyReturn(product) ==
    IF product = Panic THEN PolyPanic ELSE [status |-> "Ok", polys |-> <<product>>]

\* a.multiply(&b)
PolyMultiplyCall(a, b) ==
    /\ pc = "run"
    /\ fn_call = NoFnCall
    /\ PolyEffect("multiply", a, b, FALSE, MultiplyReturn(PolyMultiply(a, b)))
    /\ UNCHANGED <<overflow_checks, calls, psVars, mkVars, lkVars, objVars>>

\* f.divide(&g)
PolyDivideCall(f, g, zero_panics) ==
    /\ pc = "run"
    /\ fn_call = NoFnCall
    /\ PolyEffect("divide", f, g, zero_panics, PolyDivide(f, g, zero_panics))
    /\ UNCHANGED <<overflow_checks, calls, psVars, mkVars, lkVars, objVars>>

NextPoly ==
    \/ \E c \in CoefVectors : PolyNewCall(c)
    \/ \E a \in Polynomials, b \in Polynomials : PolyMultiplyCall(a, b)
    \/ \E f \in Polynomials, g \in Polynomials, zero_panics \in BOOLEAN :
          PolyDivideCall(f, g, zero_panics)

SpecPoly == InitPoly /\ [][NextPoly]_vars

---------------------------------------------------------------------------
(* Calls of PedersenCommitment                                             *)

MaxGenerators == 2

\* field elements drawn as generators and blinding factor, and committed
\* values: 0, 1, 2^63 and p - 1
CommitChoices == {FrZero, FrOne, <<0, 0, 0, 32768>>, <<0, 0, 65535, 65535>>}

RECURSIVE CommitSeqs(_)

\* the vectors of n field elements
CommitSeqs(n) ==
    IF n = 0 THEN {<< >>}
    ELSE {Append(s, c) : s \in CommitSeqs(n - 1), c \in CommitChoices}

InitCommit ==
    /\ overflow_checks \in BOOLEAN
    /\ pc = "run"
    /\ calls = 0
    /\ InitProofSystems
    /\ InitObjects
    /\ InitMerkleTree
    /\ InitLookupIdle
    /\ fn_call = NoFnCall

\* PedersenCommitment::new(num_generators): the generators and the blinding
\* factor are drawn at random
PedersenNew(num_generators) ==
    /\ pc = "run"
    /\ fn_call = NoFnCall
    /\ \E gens \in CommitSeqs(num_generators), blinding \in CommitChoices :
          fn_call' = [op |-> "new", generators |-> gens, blinding_factor |-> blinding]
    /\ UNCHANGED <<overflow_checks, pc, calls, psVars, mkVars, lkVars, objVars>>

\* what commit returned, or the panic it ended in; previous holds the values
\* and the result of the commit before it on the same object
CommitEffect(values, result, previous) ==
    /\ fn_call' = [op |-> "commit", generators |-> fn_call.generators,
                   blinding_factor |-> fn_call.blinding_factor,
                   values |-> values, result |-> result, previous |-> previous]
    /\ pc' = IF result = Panic THEN "panicked" ELSE pc

\* the first commitment.commit(&values) on the object
PedersenCommit(values) ==
    /\ pc = "run"
    /\ fn_call.op = "new"
    /\ CommitEffect(values,
                    Commit(fn_call.generators, fn_call.blinding_factor, values),
                    << >>)
    /\ UNCHANGED <<overflow_checks, calls, psVars, mkVars, lkVars, objVars>>

\* a second commitment.commit(&values) on the same object
PedersenCommitAgain(values) ==
    /\ pc = "run"
    /\ fn_call.op = "commit"
    /\ fn_call.previous = << >>
    /\ CommitEffect(values,
                    Commit(fn_call.generators, fn_call.blinding_factor, values),
                    <<[values |-> fn_call.values, result |-> fn_call.result]>>)
    /\ UNCHANGED <<overflow_checks, calls, psVars, mkVars, lkVars, objVars>>

NextCommit ==
    \/ \E n \in 0..MaxGenerators : PedersenNew(n)
    \/ \E n \in 0..MaxGenerators + 1 : \E values \in CommitSeqs(n) : PedersenCommit(values)
    \/ \E n \in 0..MaxGenerators : \E values \in CommitSeqs(n) : PedersenCommitAgain(values)

SpecCommit == InitCommit /\ [][NextCommit]_vars

---------------------------------------------------------------------------
(* Calls of chunk_u64 and concatenate                                      *)

MaxChunks == 8

\* the chunk widths 1..64
Widths == 1..U64_BITS

\* operand bit patterns: all ones, 0x0123456789ABCDEF and 1
OperandChoices ==
    {<<65535, 65535, 65535, 65535>>, <<52719, 35243, 17767, 291>>, <<1, 0, 0, 0>>}

\* the n low bits of v: an operand below 2^n
LowBits(v, n) ==
    IF n >= U64_BITS THEN v
    ELSE Low4(U64SubB(v, ShlLoop(ShrLoop(v, n), n)))

InitChunk ==
    /\ overflow_checks \in BOOLEAN
    /\ pc = "run"
    /\ calls = 0
    /\ InitProofSystems
    /\ InitObjects
    /\ InitMerkleTree
    /\ InitLookupIdle
    /\ fn_call = NoFnCall

\* what chunk_u64 returned, or the panic it ended in
ChunkEffect(x, m, c, r) ==
    /\ fn_call' = [op |-> "chunk_u64", x |-> x, m |-> m, c |-> c,
                   status |-> r.status, chunks |-> r.chunks]
    /\ pc' = IF r.status = "panic" THEN "panicked" ELSE pc

\* chunk_u64(x, m, c) for m * c <= 64 and x < 2^(m * c)
ChunkCall(x, m, c) ==
    /\ pc = "run"
    /\ fn_call = NoFnCall
    /\ m * c <= U64_BITS
    /\ ChunkEffect(x, m, c, ChunkU64(x, m, c))
    /\ UNCHANGED <<overflow_checks, calls, psVars, mkVars, lkVars, objVars>>

\* what concatenate returned, or the panic it ended in
ConcatenateEffect(result) ==
    /\ fn_call' = [op |-> "concatenate", x |-> fn_call.x, m |-> fn_call.m,
                   c |-> fn_call.c, chunks |-> fn_call.chunks, result |-> result]
    /\ pc' = IF result = Panic THEN "panicked" ELSE pc

\* concatenate(&chunks, m) of the chunks chunk_u64 returned
ConcatenateCall ==
    /\ pc = "run"
    /\ fn_call.op = "chunk_u64"
    /\ ConcatenateEffect(Concatenate(fn_call.chunks, fn_call.m))
    /\ UNCHANGED <<overflow_checks, calls, psVars, mkVars, lkVars, objVars>>

NextChunk ==
    \/ \E m \in Widths, c \in 0..MaxChunks, v \in OperandChoices :
          ChunkCall(LowBits(v, m * c), m, c)
    \/ ConcatenateCall

SpecChunk == InitChunk /\ [][NextChunk]_vars

---------------------------------------------------------------------------
(* Calls of LassoLookup::prove_lookup on inputs of several chunks          *)

MaxValues == 130

\* the table of subtable i: key k in {1, 2} has the value 10 * i + k
NumberedTable(i) == (U64Of(1) :> U64Of(10 * i + 1)) @@ (U64Of(2) :> U64Of(10 * i + 2))

\* input vectors of length n: keys 1 and 2 in turn; key 1 throughout; and
\* key 1 with the last value replaced by 3, which no table holds
ChunkedInputs(n) ==
    {[k \in 1..n |-> U64Of(1 + (k % 2))],
     [k \in 1..n |-> U64Of(1)],
     [k \in 1..n |-> IF k = n THEN U64Of(3) ELSE U64Of(1)]}

\* LassoLookup::new(w) for a width w in 0..MaxValues, every subtable filled
\* with its own table
InitChunked ==
    /\ overflow_checks \in BOOLEAN
    /\ pc = "run"
    /\ calls = 0
    /\ InitProofSystems
    /\ InitObjects
    /\ InitMerkleTree
    /\ subtables = [i \in 1..NUM_SUBTABLES |-> NumberedTable(i)]
    /\ lasso_generators \in {[k \in 1..w |-> U64Of(k + 1)] : w \in 0..MaxValues}
    /\ lasso_blinding = U64Of(5)
    /\ InitLookupCalls
    /\ fn_call = NoFnCall

\* the one prove_lookup call made on the LassoLookup, on an input as long as
\* the commitment scheme is wide or one shorter
ChunkedProve(values) ==
    /\ lasso_proof.status = "none"
    /\ LassoProve(values)

NextChunked ==
    \E n \in {Len(lasso_generators), Len(lasso_generators) - 1} \cap 0..MaxValues :
        \E values \in ChunkedInputs(n) : ChunkedProve(values)

SpecChunked == InitChunked /\ [][NextChunked]_vars

---------------------------------------------------------------------------
(* Calls of PoseidonHash::hash and of its linear layer                     *)

MaxHashCalls == 2

\* field elements given to hash: 0, 1, 2
HashChoices == {FrZero, U64Of(1), U64Of(2)}

RECURSIVE HashSeqs(_)

\* the inputs of n field elements
HashSeqs(n) ==
    IF n = 0 THEN {<< >>}
    ELSE {Append(s, c) : s \in HashSeqs(n - 1), c \in HashChoices}

\* the inputs of 0 to POSEIDON_WIDTH - 1 field elements
HashInputs == UNION {HashSeqs(n) : n \in 0..(POSEIDON_WIDTH - 1)}

\* the states given to the linear layer
MdsStates == HashSeqs(POSEIDON_WIDTH)

InitHash ==
    /\ overflow_checks \in BOOLEAN
    /\ pc = "run"
    /\ calls = 0
    /\ InitProofSystems
    /\ InitObjects
    /\ InitMerkleTree
    /\ InitLookupIdle
    /\ fn_call = NoFnCall

\* what hasher s holds after hash(input) left the state st, and the value
\* returned
HashEffect(s, input, st) ==
    /\ last' = [op |-> "hash", sys |-> s, proof |-> NoProof, inputs |-> input,
                result |-> st[1]]
    /\ hasher' = [hasher EXCEPT ![s] = st]
    /\ pc' = IF Panicked(st) THEN "panicked" ELSE pc

\* hasher[s].hash(&input), hasher[s] being a PoseidonHash::new() before its
\* first call
Hash(s, input) ==
    /\ pc = "run"
    /\ fn_call = NoFnCall
    /\ calls < MaxHashCalls
    /\ calls' = calls + 1
    /\ HashEffect(s, input, HashState(hasher[s], input))
    /\ UNCHANGED <<fn_call, objVars, overflow_checks, generator_seed, blinding_factor, proof,
                   proof_inputs, proof_owner, history, mkVars, lkVars>>

\* what the MDS multiplication of one round made of the state st
MdsEffect(st, result, previous) ==
    /\ fn_call' = [op |-> "mds", state |-> st, result |-> result, previous |-> previous]
    /\ pc' = IF Panicked(result) THEN "panicked" ELSE pc

\* the MDS multiplication of a round (hash.rs lines 45-51) on the state st
Mds(st) ==
    /\ pc = "run"
    /\ calls = 0
    /\ fn_call = NoFnCall
    /\ MdsEffect(st, FinishHash(MdsMultiply(st, 1)), << >>)
    /\ UNCHANGED <<overflow_checks, calls, psVars, mkVars, lkVars, objVars>>

\* the MDS multiplication on a second state
MdsAgain(st) ==
    /\ pc = "run"
    /\ fn_call.op = "mds"
    /\ fn_call.previous = << >>
    /\ MdsEffect(st, FinishHash(MdsMultiply(st, 1)),
                 <<[state |-> fn_call.state, result |-> fn_call.result]>>)
    /\ UNCHANGED <<overflow_checks, calls, psVars, mkVars, lkVars, objVars>>

NextHash ==
    \/ \E s \in Systems, input \in HashInputs : Hash(s, input)
    \/ \E st \in MdsStates : Mds(st)
    \/ \E st \in MdsStates : MdsAgain(st)

SpecHash == InitHash /\ [][NextHash]_vars

---------------------------------------------------------------------------
(* Calls on an ExecutionContext and of the instructions                    *)

MaxWrites == 2

\* ExecutionContext::new(width) for these widths
ContextWidths == {32, U64_BITS}

\* register indices: three registers of the file and one past its end
RegisterChoices == {1, 2, 3, NUM_GP}

\* values written: 5, 3 and 2^64 - 1
WriteChoices == {U64Of(5), U64Of(3), <<65535, 65535, 65535, 65535>>}

Instructions == {"And", "Or", "Xor", "Add"}

\* operand widths w
InstructionWidths == 0..U64_BITS

\* operands of the instructions: 0, 1, 0x0123456789ABCDEF and 2^64 - 1
ExecuteChoices ==
    {U64Zero, U64Of(1), <<52719, 35243, 17767, 291>>, <<65535, 65535, 65535, 65535>>}

\* no call made on the context, no register written
NoContextCall == [op |-> "new", written |-> << >>]

InitExec ==
    /\ overflow_checks \in BOOLEAN
    /\ pc = "run"
    /\ calls = 0
    /\ InitProofSystems
    /\ InitMerkleTree
    /\ InitLookupIdle
    /\ registers \in {RegisterFileNew(width) : width \in ContextWidths}
    /\ entries = << >>
    /\ fn_call = NoContextCall

\* what a call on the context returned and the registers it left
ContextEffect(call, r) ==
    /\ fn_call' = call @@ [result |-> r.result]
    /\ registers' = r.registers
    /\ pc' = IF r.result = "panic" THEN "panicked" ELSE pc

\* ctx.registers.write_gp(index, value); written lists the writes made
ContextWriteGp(index, value) ==
    /\ pc = "run"
    /\ fn_call.op \in {"new", "write_gp"}
    /\ calls < MaxWrites
    /\ calls' = calls + 1
    /\ ContextEffect([op |-> "write_gp",
                      written |-> Append(fn_call.written, [index |-> index, value |-> value])],
                     WriteGp(registers, index, value))
    /\ UNCHANGED <<overflow_checks, psVars, mkVars, lkVars, entries>>

\* ctx.execute_instruction(&instruction, rs1, rs2, rd, w); x and y are what
\* read_gp gives for rs1 and rs2 before the call
ContextExecute(instruction, rs1, rs2, rd, w) ==
    /\ pc = "run"
    /\ fn_call.op \in {"new", "write_gp"}
    /\ ContextEffect([op |-> "execute_instruction", written |-> fn_call.written,
                      instruction |-> instruction, rs1 |-> rs1, rs2 |-> rs2, rd |-> rd,
                      w |-> w, x |-> ReadGp(registers, rs1), y |-> ReadGp(registers, rs2)],
                     ExecuteInstruction(registers, instruction, rs1, rs2, rd, w))
    /\ UNCHANGED <<overflow_checks, calls, psVars, mkVars, lkVars, entries>>

\* what instruction.execute(x, y, w) returned, or the panic it ended in
InstructionEffect(instruction, x, y, w, result) ==
    /\ fn_call' = [op |-> "execute", written |-> << >>, instruction |-> instruction,
                   x |-> x, y |-> y, w |-> w, result |-> result]
    /\ pc' = IF result = Panic THEN "panicked" ELSE pc

\* instruction.execute(x, y, w)
InstructionExecute(instruction, x, y, w) ==
    /\ pc = "run"
    /\ fn_call = NoContextCall
    /\ InstructionEffect(instruction, x, y, w, Execute(instruction, x, y, w))
    /\ UNCHANGED <<overflow_checks, calls, psVars, mkVars, lkVars, objVars>>

NextExec ==
    \/ \E index \in RegisterChoices, value \in WriteChoices : ContextWriteGp(index, value)
    \/ \E instruction \in {"Add", "Or"}, rs1 \in {1, NUM_GP}, rd \in {3, NUM_GP},
          w \in {8, U64_BITS - 1, U64_BITS} :
          ContextExecute(instruction, rs1, 2, rd, w)
    \/ \E instruction \in Instructions, x \in ExecuteChoices, y \in ExecuteChoices,
          w \in InstructionWidths :
          InstructionExecute(instruction, x, y, w)

SpecExec == InitExec /\ [][NextExec]_vars

---------------------------------------------------------------------------
(* The shuffle of LassoLookup::prove_permutation                           *)

MaxShuffle == 3

\* the input vectors of up to MaxShuffle values
ShuffleInputs == UNION {QuerySeqs(n) : n \in 0..MaxShuffle}

InitPerm ==
    /\ overflow_checks \in BOOLEAN
    /\ pc = "run"
    /\ calls = 0
    /\ InitProofSystems
    /\ InitObjects
    /\ InitMerkleTree
    /\ InitLookupIdle
    /\ fn_call = NoFnCall

\* prove_permutation(values, table_idx) up to its loop:
\* let mut perm = values.to_vec()
PermutationBegin(values) ==
    /\ pc = "run"
    /\ fn_call = NoFnCall
    /\ fn_call' = [op |-> "prove_permutation", values |-> values, perm |-> values, i |-> 0]
    /\ UNCHANGED <<overflow_checks, pc, calls, psVars, mkVars, lkVars, objVars>>

\* one pass of the loop: let j = rng.gen_range(i..n); perm.swap(i, j)
ShuffleStep(j) ==
    /\ pc = "run"
    /\ fn_call.op = "prove_permutation"
    /\ fn_call.i < Len(fn_call.values)
    /\ j \in fn_call.i..(Len(fn_call.values) - 1)
    /\ fn_call' = [fn_call EXCEPT !.perm = Swap(fn_call.perm, fn_call.i, j),
                                  !.i = fn_call.i + 1]
    /\ UNCHANGED <<overflow_checks, pc, calls, psVars, mkVars, lkVars, objVars>>

NextPerm ==
    \/ \E values \in ShuffleInputs : PermutationBegin(values)
    \/ \E j \in 0..(MaxShuffle - 1) : ShuffleStep(j)

SpecPerm == InitPerm /\ [][NextPerm]_vars

---------------------------------------------------------------------------
(* Calls of LookupTable::insert                                            *)

MaxInserts == 3

\* values inserted: 10 and 20
InsertValues == {U64Of(10), U64Of(20)}

InitTable ==
    /\ overflow_checks \in BOOLEAN
    /\ pc = "run"
    /\ calls = 0
    /\ InitProofSystems
    /\ InitObjects
    /\ InitMerkleTree
    /\ InitLookupIdle
    /\ fn_call = NoFnCall

\* table.insert(key, value, vec![]) on a LookupTable::new
Insert(key, value) ==
    /\ pc = "run"
    /\ calls < MaxInserts
    /\ calls' = calls + 1
    /\ entries' = TableInsert(entries, key, value)
    /\ fn_call' = [op |-> "insert", key |-> key, value |-> value,
                   present |-> key \in DOMAIN entries]
    /\ UNCHANGED <<overflow_checks, pc, psVars, mkVars, lkVars, registers>>

NextTable == \E key \in KeyChoices, value \in InsertValues : Insert(key, value)

SpecTable == InitTable /\ [][NextTable]_vars

---------------------------------------------------------------------------
(* Claims about ProofSystem, checked under SpecProof                       *)

\* the last call was a verify, on the system that created the proof, of that
\* proof with the public inputs it was created for, and it returned
VerifiedOwnProof ==
    /\ last.op = "verify"
    /\ last.sys = proof_owner
    /\ last.proof = proof
    /\ last.inputs = proof_inputs
    /\ last.result # "panic"

\* C1: verify(create_proof(witness, public_inputs), public_inputs) returns
\* true on the ProofSystem that created the proof, whatever calls came before.
C1_VerifyAcceptsOwnProof == VerifiedOwnProof => last.result = "true"

\* the last call was a verify, with the public inputs the proof was created
\* for, of the proof with its witness_commitment replaced by another field
\* element and its challenge kept, and it returned
VerifiedTamperedProof ==
    /\ last.op = "verify"
    /\ last.inputs = proof_inputs
    /\ last.proof.witness_commitment # proof.witness_commitment
    /\ last.proof.challenge = proof.challenge
    /\ last.result # "panic"

\* C2: verify returns false for a proof whose witness_commitment was replaced
\* by a different field element while its challenge is kept, for every
\* public-input sequence.
C2_VerifyRejectsReplacedCommitment == VerifiedTamperedProof => last.result = "false"

\* C3: verify is a pure function of (proof, public_inputs): a call that
\* returns leaves the hasher's state unchanged, and returns what every
\* earlier call on the same system with the same arguments returned.
C3_VerifyIsPure ==
    [][(last'.op = "verify" /\ calls' = calls + 1 /\ last'.result # "panic")
          => /\ hasher' = hasher
             /\ \A h \in history :
                   (h.sys = last'.sys /\ h.proof = last'.proof /\ h.inputs = last'.inputs)
                      => h.result = last'.result]_vars

---------------------------------------------------------------------------
(* Claims about MerkleTree and MerkleProof, checked under SpecMerkle       *)

\* the last call was a verify that returned
MerkleVerified == merkle_verify.result \in {"true", "false"}

\* C4: for every non-empty leaf vector and every index i of a leaf, the proof
\* generated for i verifies against the root with leaf i, index i and a fresh
\* hasher.
C4_GeneratedProofVerifies ==
    (MerkleVerified /\ tampered = 0 /\ merkle_verify.index = proof_index)
        => merkle_verify.result = "true"

\* C5: the proof generated for index i does not verify with the index of
\* another leaf (one holding a different value), and does not verify once one
\* of its siblings has been replaced by a different field element.
C5_WrongIndexOrSiblingRejected ==
    (/\ MerkleVerified
     /\ \/ /\ tampered = 0
           /\ merkle_verify.index # proof_index
           /\ merkle_verify.index < Len(leaves)
           /\ leaves[merkle_verify.index + 1] # leaves[proof_index + 1]
        \/ /\ tampered # 0
           /\ merkle_verify.index = proof_index)
        => merkle_verify.result = "false"

\* C6: replacing one leaf by a different field element and rebuilding the
\* tree gives a root different from the root before.
C6_ReplacedLeafChangesRoot ==
    (replaced # 0 /\ pc = "run") => Root(levels) # prev_root

\* what a fresh hasher returns for entries 2j and 2j+1 (from 0) of a level,
\* a missing right entry taken as zero
FreshPairHash(level, j) ==
    HashValue(FreshHasher,
              <<level[2 * j - 1],
                IF 2 * j <= Len(level) THEN level[2 * j] ELSE FrZero>>)

\* C7: in the tree built from a non-empty leaf vector, every entry of a level
\* above the leaves is the fresh-hasher hash of the two entries below it,
\* each level has ceil(n/2) entries for the n below it, and the top level has
\* exactly one entry.
C7_LevelInvariant ==
    (levels # << >> /\ Len(leaves) > 0) =>
        /\ Len(levels[Len(levels)]) = 1
        /\ \A i \in 1..(Len(levels) - 1) :
              /\ Len(levels[i + 1]) = (Len(levels[i]) + 1) \div 2
              /\ \A j \in 1..Len(levels[i + 1]) :
                    levels[i + 1][j] = FreshPairHash(levels[i], j)


---------------------------------------------------------------------------
(* Claims about the lookups, checked under SpecLookup                      *)

\* a LookupSubtable::prove_lookup call was made
SubtableCalled == subtable_call.status # "none"

\* every queried value of that call is a key of the subtable's table
AllValuesPresent ==
    \A k \in 1..Len(subtable_call.values) :
        subtable_call.values[k] \in DOMAIN subtables[subtable_call.subtable]

\* C8: prove_lookup succeeds whenever every queried value is a key of the
\* subtable, and the proof holds one element per queried value, in query
\* order, each the table value stored under that key.
C8_ProveLookupSucceeds ==
    (SubtableCalled /\ AllValuesPresent) =>
        /\ subtable_call.status = "Ok"
        /\ Len(subtable_call.elements) = Len(subtable_call.values)
        /\ \A k \in 1..Len(subtable_call.values) :
              subtable_call.elements[k] =
                  subtables[subtable_call.subtable][subtable_call.values[k]]

\* the query [2, 1, 2] against {(1,10),(2,20)} returned [20, 10, 20]
C8_Witness ==
    /\ SubtableCalled
    /\ subtables[subtable_call.subtable] = ExampleTable
    /\ subtable_call.values = <<U64Of(2), U64Of(1), U64Of(2)>>
    /\ subtable_call.status = "Ok"
    /\ subtable_call.elements = <<U64Of(20), U64Of(10), U64Of(20)>>

\* C9: prove_lookup returns the error LookupFailed, and no proof, whenever at
\* least one queried value is not a key of the subtable, at whatever position.
C9_ProveLookupFails ==
    (SubtableCalled /\ ~AllValuesPresent) =>
        /\ subtable_call.status = "LookupFailed"
        /\ subtable_call.elements = << >>

\* the query [1, 2, 3] against {(1,10),(2,20)}, its absent value last,
\* returned LookupFailed
C9_Witness ==
    /\ SubtableCalled
    /\ subtables[subtable_call.subtable] = ExampleTable
    /\ subtable_call.values = <<U64Of(1), U64Of(2), U64Of(3)>>
    /\ subtable_call.status = "LookupFailed"

\* C10: with the table {(1,10),(2,20)}, LassoLookup::prove_lookup([1]) gives a
\* proof whose subtable proof element is 10 and verify_instruction_lookup
\* returns true for it; once the entry for key 1 is changed to 99,
\* verify_instruction_lookup returns false for the same proof.
C10_EndToEnd ==
    (/\ lasso_values = <<U64Of(1)>>
     /\ lasso_proof.status = "Ok"
     /\ instruction_lookup # "none"
     /\ subtables[1] = IF table_changed THEN ChangedTable ELSE ExampleTable)
        => /\ lasso_proof.subtable_proofs[1].elements = <<U64Of(10)>>
           /\ instruction_lookup = IF table_changed THEN "false" ELSE "true"


---------------------------------------------------------------------------
(* Claims about LassoArgument, checked under SpecLasso                     *)

\* the last call was a prove that returned
ProveReturned == fn_call.op = "prove" /\ fn_call.status # "panic"

\* C11: prove returns either a proof holding one InstructionProof per
\* instruction, in program order, or an error and no proof; when proving an
\* instruction fails, prove_instruction is called for no later instruction
\* and the transcript is fed nothing.
C11_ProveAllOrNothing ==
    ProveReturned =>
        IF fn_call.status = "Ok"
        THEN /\ Len(fn_call.instruction_proofs) = Len(fn_call.program)
             /\ \A i \in 1..Len(fn_call.program) :
                   fn_call.instruction_proofs[i] =
                       ProveInstruction(TheArgument, fn_call.program[i])
        ELSE /\ fn_call.instruction_proofs = << >>
             /\ fn_call.status # "FinalFailed" =>
                   /\ fn_call.transcript = << >>
                   /\ fn_call.attempted \in 1..Len(fn_call.program)
                   /\ ProveInstruction(TheArgument,
                          fn_call.program[fn_call.attempted]).status = fn_call.status
                   /\ \A j \in 1..(fn_call.attempted - 1) :
                         ProveInstruction(TheArgument, fn_call.program[j]).status = "Ok"

\* the first of two instructions failed with LookupFailed after one of its
\* lookups had succeeded elsewhere in the program: nothing was returned and
\* the second instruction was not attempted
C11_Witness ==
    /\ ProveReturned
    /\ fn_call.status = "LookupFailed"
    /\ Len(fn_call.program) = 2
    /\ fn_call.attempted = 1
    /\ ProveInstruction(TheArgument, fn_call.program[2]).status = "Ok"
    /\ Len(fn_call.program[2].tables) = 2


---------------------------------------------------------------------------
(* Claims about Fr, checked under SpecField                                *)

\* (a + b) mod p for a, b below p, from the 65-bit sum: the sum is below 2p,
\* so at most one subtraction of p is needed
SumModP(a, b) ==
    IF U64AddC(a, b)[5] = 1 \/ ~U64Less(Low4(U64AddC(a, b)), MODULUS)
    THEN Low4(U64SubB(Low4(U64AddC(a, b)), MODULUS))
    ELSE Low4(U64AddC(a, b))

RECURSIVE ProductLoop(_, _, _)

\* (a * b) mod p by doubling and adding modulo p, over the bits of b
ProductLoop(a, b, acc) ==
    IF b = U64Zero THEN acc
    ELSE IF a = Panic \/ acc = Panic THEN Panic
    ELSE ProductLoop(SumModP(a, a), U64Shr1(b),
                     IF b[1] % 2 = 1 THEN SumModP(acc, a) ELSE acc)

ProductModP(a, b) == ProductLoop(a, b, FrZero)

\* C12: for all field elements a and b, a + b returns (a + b) mod p, also
\* when the integer sum exceeds 2^64 - 1.
C12_AddIsSumModP ==
    fn_call.op = "add" => fn_call.result = SumModP(fn_call.a, fn_call.b)


\* MODULUS - 1
MinusOne == Low4(U64SubB(MODULUS, U64Of(1)))

\* C13: for all field elements a and b, a * b returns (a * b) mod p, a value
\* below p, whatever the size of the integer product.
C13_MulIsProductModP ==
    fn_call.op = "mul" =>
        /\ fn_call.result = ProductModP(fn_call.a, fn_call.b)
        /\ U64Less(fn_call.result, MODULUS)

\* (p - 1) * (p - 1), a product of almost 128 bits, returned 1
C13_Witness ==
    /\ fn_call.op = "mul"
    /\ fn_call.a = MinusOne
    /\ fn_call.b = MinusOne
    /\ fn_call.result = FrOne

\* C14: a.inverse() is None exactly when a is zero, and for a non-zero a it
\* is Some(b) with a * b = 1.
C14_InverseIsInverse ==
    fn_call.op = "inverse" =>
        IF fn_call.a = FrZero THEN fn_call.result = None
        ELSE /\ fn_call.result.some
             /\ FrMul(fn_call.a, fn_call.result.value) = FrOne
             /\ ProductModP(fn_call.a, fn_call.result.value) = FrOne

\* the inverse of 2 is (p + 1) / 2 = 0x7FFFFFFF80000001
C14_Witness ==
    /\ fn_call.op = "inverse"
    /\ fn_call.a = U64Of(2)
    /\ fn_call.result = Some(<<1, 32768, 65535, 32767>>)


---------------------------------------------------------------------------
(* Claims about Polynomial, checked under SpecPoly                         *)

RECURSIVE ConvolutionSum(_, _, _, _, _)

\* coefficient k (from 1) of the product of a and b: the sum of a[i] * b[j]
\* over i + j = k + 1, modulo p
ConvolutionSum(a, b, k, i, acc) ==
    IF i > Len(a) THEN acc
    ELSE ConvolutionSum(a, b, k, i + 1,
             IF k - i + 1 \in 1..Len(b)
             THEN SumModP(acc, ProductModP(a[i], b[k - i + 1]))
             ELSE acc)

RECURSIVE ConvolutionFrom(_, _, _)

\* coefficients k.. of the convolution of a and b
ConvolutionFrom(a, b, k) ==
    IF k > Len(a) + Len(b) - 1 THEN << >>
    ELSE <<ConvolutionSum(a, b, k, 1, FrZero)>> \o ConvolutionFrom(a, b, k + 1)

Convolution(a, b) == ConvolutionFrom(a, b, 1)

\* coefficient k of x, zero beyond its length
CoefAt(x, k) == IF k <= Len(x) THEN x[k] ELSE FrZero

RECURSIVE PolySumFrom(_, _, _)

\* coefficients k.. of x + y
PolySumFrom(x, y, k) ==
    IF k > Len(x) /\ k > Len(y) THEN << >>
    ELSE <<SumModP(CoefAt(x, k), CoefAt(y, k))>> \o PolySumFrom(x, y, k + 1)

\* a polynomial is zero
IsZeroPoly(c) == c = <<FrZero>>

\* the highest-index coefficient is non-zero, or the polynomial is the zero
\* polynomial stored as one zero coefficient
Normalized(c) == Len(c) >= 1 /\ (c[Len(c)] # FrZero \/ IsZeroPoly(c))

\* C15: for every f and every non-constant g (g of degree greater than f
\* included), f.divide(g) returns (quotient, remainder) with
\* f = quotient * g + remainder and remainder.degree() < g.degree().
C15_DivideIsDivision ==
    (fn_call.op = "divide" /\ PolyDegree(fn_call.b) >= 1) =>
        /\ fn_call.status = "Ok"
        /\ PolyNormalize(PolySumFrom(Convolution(fn_call.polys[1], fn_call.b),
                                     fn_call.polys[2], 1)) = fn_call.a
        /\ PolyDegree(fn_call.polys[2]) < PolyDegree(fn_call.b)

C17_ReturnedNormalized ==
    (fn_call.op \in {"new", "multiply", "divide"} /\ fn_call.status = "Ok") =>
        \A k \in 1..Len(fn_call.polys) :
            /\ Normalized(fn_call.polys[k])
            /\ IsZeroPoly(fn_call.polys[k]) => PolyDegree(fn_call.polys[k]) = 0

\* Polynomial::new was given coefficients ending in a zero and returned a
\* shorter coefficient vector
C17_Witness ==
    /\ fn_call.op = "new"
    /\ Len(fn_call.a) >= 2
    /\ fn_call.a[Len(fn_call.a)] = FrZero
    /\ fn_call.a[1] # FrZero
    /\ fn_call.polys = <<<<fn_call.a[1]>>>>

\* C18: for non-zero polynomials a and b, a.multiply(b) is the convolution of
\* their coefficient sequences and stores deg(a) + deg(b) + 1 coefficients.
C18_MultiplyIsConvolution ==
    (fn_call.op = "multiply" /\ ~IsZeroPoly(fn_call.a) /\ ~IsZeroPoly(fn_call.b)) =>
        /\ fn_call.status = "Ok"
        /\ Len(fn_call.polys[1]) = PolyDegree(fn_call.a) + PolyDegree(fn_call.b) + 1
        /\ fn_call.polys[1] = Convolution(fn_call.a, fn_call.b)


---------------------------------------------------------------------------
(* Claims about PedersenCommitment, checked under SpecCommit               *)

RECURSIVE InnerProductModP(_, _, _, _)

\* the sum over i of values[i] * gens[i], modulo p
InnerProductModP(gens, values, i, acc) ==
    IF i > Len(values) THEN acc
    ELSE InnerProductModP(gens, values, i + 1,
                          SumModP(acc, ProductModP(values[i], gens[i])))

\* C19: commit(values) fails when values.len() differs from the number of
\* generators; otherwise it returns the sum of values[i] * generators[i] plus
\* the blinding factor, and a second commit of the same values on the same
\* object returns the same commitment.
C19_CommitIsBlindedSum ==
    fn_call.op = "commit" =>
        IF Len(fn_call.values) # Len(fn_call.generators)
        THEN fn_call.result = Panic
        ELSE /\ fn_call.result =
                   SumModP(InnerProductModP(fn_call.generators, fn_call.values, 1, FrZero),
                           fn_call.blinding_factor)
             /\ \A k \in 1..Len(fn_call.previous) :
                   fn_call.previous[k].values = fn_call.values =>
                       fn_call.previous[k].result = fn_call.result


---------------------------------------------------------------------------
(* Claims about chunk_u64 and concatenate, checked under SpecChunk         *)

\* bits (c - k) * m .. (c - k + 1) * m - 1 of x: chunk k of c, counted from
\* the most significant
ChunkOf(x, m, c, k) == LowBits(ShrLoop(x, (c - k) * m), m)

\* C20: for 1 <= m <= 64, m * c <= 64 and x < 2^(m * c), chunk_u64(x, m, c)
\* returns exactly c chunks, most significant first, each below 2^m, and
\* concatenate of them with m gives x back.
C20_ChunkRoundTrip ==
    /\ fn_call.op = "chunk_u64" =>
          /\ fn_call.status = "Ok"
          /\ Len(fn_call.chunks) = fn_call.c
          /\ \A k \in 1..Len(fn_call.chunks) :
                fn_call.chunks[k] = ChunkOf(fn_call.x, fn_call.m, fn_call.c, k)
    /\ fn_call.op = "concatenate" => fn_call.result = fn_call.x


---------------------------------------------------------------------------
(* Claims about the chunks of LassoLookup, checked under SpecChunked       *)

\* the number of 32-element chunks of n values
ChunkCount(n) == (n + CHUNK_SIZE - 1) \div CHUNK_SIZE

\* the number of values in chunk i (from 1) of n values
ChunkLen(n, i) == IF CHUNK_SIZE * i <= n THEN CHUNK_SIZE ELSE n - CHUNK_SIZE * (i - 1)

\* C21: a LookupProof that LassoLookup::prove_lookup returns holds one
\* subtable proof per 32-element chunk of the input, ceil(|values| / 32) in
\* all, and proof i holds the values subtable i gives for the keys of chunk i.
C21_OneProofPerChunk ==
    lasso_proof.status = "Ok" =>
        /\ Len(lasso_proof.subtable_proofs) = ChunkCount(Len(lasso_values))
        /\ \A i \in 1..Len(lasso_proof.subtable_proofs) :
              /\ i <= NUM_SUBTABLES
              /\ Len(lasso_proof.subtable_proofs[i].elements) = ChunkLen(Len(lasso_values), i)
              /\ \A j \in 1..Len(lasso_proof.subtable_proofs[i].elements) :
                    lasso_proof.subtable_proofs[i].elements[j] =
                        subtables[i][lasso_values[CHUNK_SIZE * (i - 1) + j]]

\* a proof was returned for 33 values: a full chunk and a chunk of one value
C21_Witness ==
    /\ lasso_proof.status = "Ok"
    /\ Len(lasso_values) = CHUNK_SIZE + 1
    /\ Len(lasso_proof.subtable_proofs) = 2
    /\ Len(lasso_proof.subtable_proofs[2].elements) = 1


---------------------------------------------------------------------------
(* Claims about PoseidonHash, checked under SpecHash                       *)

\* C22: hash(x) returns, after any earlier hash calls on the same hasher,
\* the value hash(x) returns on a freshly constructed hasher.
C22_HashDependsOnInputOnly ==
    (last.op = "hash" /\ Len(last.inputs) = POSEIDON_WIDTH - 1) =>
        last.result = HashValue(FreshHasher, last.inputs)


\* C24: the MDS matrix is invertible, so the linear layer of a round maps two
\* different states to two different states.
C24_MdsLayerInjective ==
    fn_call.op = "mds" =>
        \A k \in 1..Len(fn_call.previous) :
            fn_call.previous[k].state # fn_call.state =>
                fn_call.previous[k].result # fn_call.result

\* the state hash starts its rounds from on a fresh hasher: the elements
\* given, the remaining positions zero
LoadedState(input) ==
    [i \in 1..POSEIDON_WIDTH |-> IF i <= Len(input) THEN input[i] ELSE FrZero]

\* C25: hash(inputs) is defined for every input of 0 to POSEIDON_WIDTH - 1
\* field elements: it does not fail, and on a hasher not used before it
\* returns state[0] after the rounds run on the elements given followed by
\* zeros.
C25_HashOfShortInput ==
    (last.op = "hash" /\ Len(last.inputs) <= POSEIDON_WIDTH - 1) =>
        /\ last.result # Panic
        /\ calls = 1 => last.result = PoseidonRounds(LoadedState(last.inputs), 0)[1]


---------------------------------------------------------------------------
(* Claims about the ExecutionContext and the instructions, checked under   *)
(* SpecExec                                                                *)

\* an AddInstruction was executed on in-range registers in a context of
\* width 64
AddExecuted ==
    /\ fn_call.op = "execute_instruction"
    /\ fn_call.instruction = "Add"
    /\ registers.width = U64_BITS
    /\ fn_call.rs1 < NUM_GP /\ fn_call.rs2 < NUM_GP /\ fn_call.rd < NUM_GP

\* C23: in an ExecutionContext of width 64, execute_instruction of an
\* AddInstruction with in-range registers and w <= 64 returns true and leaves
\* (x + y) mod 2^w in the destination register; after write_gp(1, 5) and
\* write_gp(2, 3), with w = 64, read_gp(3) is Some(8).
C23_AddWritesSum ==
    AddExecuted =>
        /\ fn_call.result = "true"
        /\ ReadGp(registers, fn_call.rd) =
               Some(LowBits(WrappingAdd(fn_call.x.value, fn_call.y.value), fn_call.w))
        /\ (/\ fn_call.written = <<[index |-> 1, value |-> U64Of(5)],
                                   [index |-> 2, value |-> U64Of(3)]>>
            /\ fn_call.rs1 = 1 /\ fn_call.rs2 = 2 /\ fn_call.rd = 3
            /\ fn_call.w = U64_BITS)
           => ReadGp(registers, 3) = Some(U64Of(8))

\* C30: for every w < 64, OrInstruction.execute(x, y, w) is (x | y) mod 2^w
\* and XorInstruction.execute(x, y, w) is (x ^ y) mod 2^w.
C30_OrXorFitWidth ==
    (fn_call.op = "execute" /\ fn_call.w < U64_BITS) =>
        /\ fn_call.instruction = "Or" =>
               fn_call.result = LowBits(U64Or(fn_call.x, fn_call.y), fn_call.w)
        /\ fn_call.instruction = "Xor" =>
               fn_call.result = LowBits(U64Xor(fn_call.x, fn_call.y), fn_call.w)


---------------------------------------------------------------------------
(* A further claim about MerkleTree, checked under SpecMerkle              *)

RECURSIVE IndexAtLevel(_, _)

\* the index, in level k (from 1), of the node above leaf index
IndexAtLevel(index, k) == IF k = 1 THEN index ELSE IndexAtLevel(index \div 2, k - 1)

\* C26: generate_proof(i) returns one sibling per level below the root,
\* levels - 1 in all, bottom to top, for every leaf index, also when the
\* node is the last entry of a level of odd length.
C26_OneSiblingPerLevel ==
    (proof_index >= 0 /\ tampered = 0) =>
        /\ Len(merkle_proof) = Len(levels) - 1
        /\ \A k \in 1..Len(merkle_proof) :
              Xor1(IndexAtLevel(proof_index, k)) < Len(levels[k]) =>
                  merkle_proof[k] = levels[k][Xor1(IndexAtLevel(proof_index, k)) + 1]


---------------------------------------------------------------------------
(* Claim about prove_permutation, checked under SpecPerm                   *)

\* how often v occurs in the sequence s
Occurrences(s, v) == Cardinality({k \in 1..Len(s) : s[k] = v})

\* C27: whatever indices j the shuffle draws, perm is a permutation of the
\* input values: same length and, for every value, the same number of
\* occurrences.
C27_ShuffleIsPermutation ==
    fn_call.op = "prove_permutation" =>
        /\ Len(fn_call.perm) = Len(fn_call.values)
        /\ \A v \in KeyChoices :
              Occurrences(fn_call.perm, v) = Occurrences(fn_call.values, v)

\* the loop has ended on three values, two of them equal, and left them in
\* another order
C27_Witness ==
    /\ fn_call.op = "prove_permutation"
    /\ Len(fn_call.values) = 3
    /\ fn_call.i = 3
    /\ fn_call.values[1] = fn_call.values[2]
    /\ fn_call.values[3] # fn_call.values[1]
    /\ fn_call.perm # fn_call.values


---------------------------------------------------------------------------
(* Claim about LookupTable, checked under SpecTable                        *)

\* C28: after any sequence of insert calls, a re-insertion of a key already
\* present included, no two stored entries share a metadata.index.
C28_IndicesDistinct ==
    \A k1 \in DOMAIN entries, k2 \in DOMAIN entries :
        k1 # k2 => entries[k1].index # entries[k2].index


---------------------------------------------------------------------------
(* A further claim about the lookups, checked under SpecLookup             *)

\* C29: a call of LookupSubtable::prove_lookup or LassoLookup::prove_lookup,
\* whether it returns a proof or fails, leaves the key-to-value map of every
\* subtable as it was.
C29_ProveLookupReadsOnly ==
    [][(subtable_call' # subtable_call \/ lasso_proof' # lasso_proof
        \/ lasso_values' # lasso_values) => subtables' = subtables]_vars

\* LassoLookup::prove_lookup has failed, or LookupSubtable::prove_lookup has
\* returned a proof, on a table that holds entries
C29_Witness ==
    /\ subtables[1] = ExampleTable
    /\ \/ lasso_proof.status = "LookupFailed"
       \/ subtable_call.status = "Ok" /\ subtable_call.subtable = 1
                                     /\ Len(subtable_call.values) >= 2


=============================================================================
